---- MODULE Spec2Model ----
(***************************************************************************)
(* Model of the log-ingestion service's request-instrumentation pipeline:  *)
(* the structured logger (logger package), the HTTP middleware chain       *)
(* (middleware/logging.go) and its wiring in main.                         *)
(*                                                                         *)
(* A handler is the sequence of the stages that wrap the route's handler,  *)
(* outermost first.  A middleware is an operator  M(next, lm, r, s)  that  *)
(* maps the request r and the state s of one request execution to the      *)
(* state after the handler it returns for next has run, calling            *)
(* ServeHTTP(next, lm, r, s) where the code calls next.ServeHTTP.  s carries the response writer, the records written to  *)
(* the logger's sink on behalf of the request, the rate limiter's closure  *)
(* variables, the clock and a pending panic.                               *)
(***************************************************************************)
EXTENDS Integers, Sequences, FiniteSets, TLC

(***************************************************************************)
(* Bounds of the model.                                                    *)
(***************************************************************************)
\* a client sends at most MaxCount requests in one window
MaxCount == 102
\* requests sent by the second client address in one window
MaxOther == 2
\* the clock stops at MaxTime seconds
MaxTime == 61
\* requests per client and window in the concurrent runs
MaxRaceCount == 2
\* lines a sink receives
MaxLines == 2
\* logger objects while records are emitted
MaxEmitLoggers == 2
\* logger objects while loggers are derived
MaxLoggers == 3
\* identifiers set one on top of the other in a scope
MaxScopeDepth == 3
\* calls a handler makes on the response wrapper
MaxCalls == 3
\* concurrent tasks writing through one logger, and the records each emits
NumTasks == 2
RecordsPerTask == 2

(***************************************************************************)
(* Program constants.                                                      *)
(***************************************************************************)
DEBUG == 0
INFO == 1
WARN == 2
ERROR == 3
FATAL == 4
Levels == {DEBUG, INFO, WARN, ERROR, FATAL}

\* time.Minute, in seconds
Window == 60
\* "Simple rate limit: 100 requests per minute"
HardLimit == 100
\* "Log high request rates"
SoftLimit == 50

StatusOK == 200
StatusTooManyRequests == 429
StatusInternalServerError == 500

\* LogLevel.String
LevelString(l) ==
  CASE l = DEBUG -> "DEBUG"
    [] l = INFO -> "INFO"
    [] l = WARN -> "WARN"
    [] l = ERROR -> "ERROR"
    [] l = FATAL -> "FATAL"
    [] OTHER -> "UNKNOWN"

(***************************************************************************)
(* Correlation scope: context.WithValue builds a chain of (key, value)     *)
(* pairs; Value(key) returns the innermost pair with that key.             *)
(***************************************************************************)
Background == << >>

WithValueOutermost(ctx, key, val) == << <<key, val>> >> \o ctx

WithValue(ctx, key, val) == Append(ctx, <<key, val>>)

RECURSIVE getFromContext(_, _)
getFromContext(ctx, key) ==
  IF ctx = << >> THEN ""
  ELSE IF ctx[Len(ctx)][1] = key THEN ctx[Len(ctx)][2]
  ELSE getFromContext(SubSeq(ctx, 1, Len(ctx) - 1), key)

WithTraceID(ctx, traceID) == WithValue(ctx, "trace_id", traceID)
WithUserID(ctx, userID) == WithValue(ctx, "user_id", userID)
WithRequestID(ctx, requestID) == WithValue(ctx, "request_id", requestID)
GetTraceID(ctx) == getFromContext(ctx, "trace_id")
GetUserID(ctx) == getFromContext(ctx, "user_id")
GetRequestID(ctx) == getFromContext(ctx, "request_id")

(***************************************************************************)
(* Logger: an immutable configuration and the accumulated fields.          *)
(***************************************************************************)
NoFields == [k \in {} |-> ""]

MergeFieldsKeepOld(f, g) ==
  [k \in DOMAIN f \cup DOMAIN g |-> IF k \in DOMAIN f THEN f[k] ELSE g[k]]

\* the union of two field maps, the second winning on common keys
MergeFields(f, g) ==
  [k \in DOMAIN f \cup DOMAIN g |-> IF k \in DOMAIN g THEN g[k] ELSE f[k]]

WithFields(l, fields) == [l EXCEPT !.fields = MergeFields(l.fields, fields)]

\* the LogEntry logWithContext builds (caller metadata and timestamp left out)
ContextEntry(l, ctx, level, message) ==
  [level |-> LevelString(level),
   message |-> message,
   service |-> l.service,
   component |-> l.component,
   trace_id |-> getFromContext(ctx, "trace_id"),
   user_id |-> getFromContext(ctx, "user_id"),
   request_id |-> getFromContext(ctx, "request_id"),
   fields |-> l.fields]

levelEnabledAbove(l, level) == level > l.level

\* the filter of log and logWithContext: "if level < l.level { return }"
levelEnabled(l, level) == level >= l.level

logWithContextPrepend(l, ctx, level, message, s) ==
  IF levelEnabled(l, level)
  THEN [s EXCEPT !.out = <<ContextEntry(l, ctx, level, message)>> \o @]
  ELSE s

\* logWithContext, then writeEntry: one line appended to the sink
logWithContext(l, ctx, level, message, s) ==
  IF levelEnabled(l, level)
  THEN [s EXCEPT !.out = Append(@, ContextEntry(l, ctx, level, message))]
  ELSE s

DebugContext(l, ctx, message, s) == logWithContext(l, ctx, DEBUG, message, s)
InfoContext(l, ctx, message, s) == logWithContext(l, ctx, INFO, message, s)
WarnContext(l, ctx, message, s) == logWithContext(l, ctx, WARN, message, s)
ErrorContext(l, ctx, message, s) == logWithContext(l, ctx, ERROR, message, s)

(***************************************************************************)
(* Logger objects.  A *Logger is a pointer: heap.loggers[p] is the struct  *)
(* p points to and its fields member is a reference to one of heap.maps.   *)
(* An operation that returns a *Logger yields the heap after it and the    *)
(* pointer returned.                                                       *)
(***************************************************************************)
parseLogLevelAnyCase(level) ==
  CASE level \in {"DEBUG", "debug"} -> DEBUG
    [] level \in {"INFO", "info"} -> INFO
    [] level \in {"WARN", "WARNING", "warn", "warning"} -> WARN
    [] level \in {"ERROR", "error"} -> ERROR
    [] level \in {"FATAL", "fatal"} -> FATAL
    [] OTHER -> INFO

parseLogLevel(level) ==
  CASE level = "DEBUG" -> DEBUG
    [] level = "INFO" -> INFO
    [] level = "WARN" \/ level = "WARNING" -> WARN
    [] level = "ERROR" -> ERROR
    [] level = "FATAL" -> FATAL
    [] OTHER -> INFO

parseLogFormat(format) ==
  CASE format = "JSON" -> "JSON"
    [] format = "TEXT" -> "TEXT"
    [] OTHER -> "JSON"

\* the sinks: os.Stdout, which New installs, and a bytes.Buffer put in its
\* place afterwards
Stdout == 1
Buffer == 2

New(config) ==
  [heap |-> [loggers |-> << [level |-> parseLogLevel(config.Level),
                             service |-> config.Service,
                             component |-> config.Component,
                             format |-> parseLogFormat(config.Format),
                             fields |-> 1,
                             output |-> Stdout] >>,
             maps |-> << MergeFields(NoFields, config.Fields) >>],
   ptr |-> 1]

\* the logger p points to, with the contents of its field map
Deref(h, p) == [h.loggers[p] EXCEPT !.fields = h.maps[@]]

LoggerWithFieldsInPlace(h, p, fields) ==
  [heap |-> [loggers |-> Append(h.loggers, h.loggers[p]),
             maps |-> [h.maps EXCEPT ![h.loggers[p].fields] = MergeFields(@, fields)]],
   ptr |-> Len(h.loggers) + 1]

\* Logger.WithFields: a new struct and a new map
LoggerWithFields(h, p, fields) ==
  [heap |-> [loggers |-> Append(h.loggers,
                                [h.loggers[p] EXCEPT !.fields = Len(h.maps) + 1]),
             maps |-> Append(h.maps, MergeFields(h.maps[h.loggers[p].fields], fields))],
   ptr |-> Len(h.loggers) + 1]

LoggerWithField(h, p, key, value) ==
  LoggerWithFields(h, p, [k \in {key} |-> value])

\* err is the error's text, "" for a nil error
LoggerWithError(h, p, err) ==
  IF err # "" THEN LoggerWithField(h, p, "error", err) ELSE [heap |-> h, ptr |-> p]

\* time.Duration.String for whole seconds
DurationString(d) == ToString(d) \o "s"

LoggerWithDuration(h, p, duration) ==
  LoggerWithField(h, p, "duration", DurationString(duration))

LoggerWithComponentInPlace(h, p, component) ==
  [heap |-> [h EXCEPT !.loggers[p].component = component], ptr |-> p]

\* Logger.WithComponent: a copy of the struct, the map shared
LoggerWithComponent(h, p, component) ==
  [heap |-> [h EXCEPT !.loggers = Append(@, [h.loggers[p] EXCEPT !.component = component])],
   ptr |-> Len(h.loggers) + 1]

\* the LogEntry log builds: no correlation identifiers
PlainEntry(l, level, message) ==
  [level |-> LevelString(level),
   message |-> message,
   service |-> l.service,
   component |-> l.component,
   trace_id |-> "",
   user_id |-> "",
   request_id |-> "",
   fields |-> l.fields]

\* json.Marshal(entry): the members tagged omitempty are left out when they
\* are empty (timestamp and caller metadata are not modelled)
jsonMarshalNoOmitEmpty(entry) ==
  LET keys == {"level", "message", "service", "component", "trace_id", "user_id",
               "request_id"}
                \cup (IF DOMAIN entry.fields = {} THEN {} ELSE {"fields"})
  IN [k \in keys |-> entry[k]]

jsonMarshal(entry) ==
  LET keys == {"level", "message", "service", "component"}
                \cup {k \in {"trace_id", "user_id", "request_id"} : entry[k] # ""}
                \cup (IF DOMAIN entry.fields = {} THEN {} ELSE {"fields"})
  IN [k \in keys |-> entry[k]]

\* formatTextEntry: the base message and the optional parts in their order
formatTextEntry(entry) ==
  << <<entry.level, entry.service, entry.component, entry.message>> >>
    \o (IF entry.trace_id # "" THEN << <<"trace", entry.trace_id>> >> ELSE << >>)
    \o (IF entry.request_id # "" THEN << <<"request", entry.request_id>> >> ELSE << >>)
    \o (IF entry.user_id # "" THEN << <<"user", entry.user_id>> >> ELSE << >>)
    \o (IF DOMAIN entry.fields # {} THEN << <<"fields", entry.fields>> >> ELSE << >>)

\* the string writeEntry prints
formatEntry(l, entry) ==
  IF l.format = "JSON" THEN jsonMarshal(entry) ELSE formatTextEntry(entry)

\* what fmt.Fprintln(l.output, output) hands to the sink in one Write: the
\* string (with the format it is in) and the newline
LineNoNewline(l, entry) ==
  [format |-> l.format, data |-> formatEntry(l, entry), newline |-> FALSE]

Line(l, entry) ==
  [format |-> l.format, data |-> formatEntry(l, entry), newline |-> TRUE]

\* the line written in place of a record json.Marshal failed on with err
FallbackLine(l, err) ==
  [format |-> l.format,
   data |-> [level |-> "ERROR", message |-> "Failed to marshal log entry: " \o err],
   newline |-> TRUE]

writeEntryDropOnError(l, entry, sk, err, ok) ==
  IF ok /\ err = "" THEN [sk EXCEPT ![l.output] = Append(@, Line(l, entry))] ELSE sk

\* writeEntry where json.Marshal returns the error err ("" for nil) and the
\* sink's Write succeeds (ok) or fails; the text format leaves out fields
\* it cannot encode; what Fprintln returns is discarded
writeEntryWith(l, entry, sk, err, ok) ==
  LET line == CASE err = "" -> Line(l, entry)
                [] l.format = "JSON" -> FallbackLine(l, err)
                [] OTHER -> Line(l, [entry EXCEPT !.fields = NoFields])
  IN IF ok THEN [sk EXCEPT ![l.output] = Append(@, line)] ELSE sk

\* writeEntry for a record json can encode and a sink that takes the line
writeEntry(l, entry, sk) == writeEntryWith(l, entry, sk, "", TRUE)

\* Logger.log on the logger l (dereferenced) and the sinks sk
log(l, level, message, sk) ==
  IF levelEnabled(l, level) THEN writeEntry(l, PlainEntry(l, level, message), sk) ELSE sk

\* Logger.logWithContext on the logger l (dereferenced) and the sinks sk
logWithContextTo(l, ctx, level, message, sk) ==
  IF levelEnabled(l, level)
  THEN writeEntry(l, ContextEntry(l, ctx, level, message), sk)
  ELSE sk

\* fmt.Sprintf(format, arg) for a format that ends in its one verb
Sprintf(format, arg) == format \o arg

(***************************************************************************)
(* http.ResponseWriter as net/http and httptest implement it: the first    *)
(* WriteHeader fixes the status and the headers that are sent, a Write     *)
(* before any WriteHeader implies WriteHeader(200).  status 0: nothing     *)
(* written yet.                                                            *)
(***************************************************************************)
HeaderNames ==
  {"X-Content-Type-Options", "X-Frame-Options", "X-XSS-Protection",
   "Strict-Transport-Security", "Access-Control-Allow-Origin",
   "Access-Control-Allow-Methods", "Access-Control-Allow-Headers",
   "X-Request-ID", "Content-Type"}

NoHeaders == [h \in HeaderNames |-> ""]

NewRecorder == [header |-> NoHeaders, status |-> 0, sent |-> NoHeaders, body |-> 0]

HeaderSet(w, name, val) == [w EXCEPT !.header[name] = val]

RawWriteHeader(w, code) ==
  IF w.status # 0 THEN w ELSE [w EXCEPT !.status = code, !.sent = w.header]

RawWrite(w, n) ==
  LET w1 == RawWriteHeader(w, StatusOK) IN [w1 EXCEPT !.body = @ + n]

\* what the client receives once the handler chain has returned
ResponseStatus(w) == IF w.status = 0 THEN StatusOK ELSE w.status
ResponseHeader(w) == IF w.status = 0 THEN w.header ELSE w.sent

\* http.Error(w, text, code); n is the length of text plus the newline
HttpError(w, n, code) ==
  LET h1 == HeaderSet(w, "Content-Type", "text/plain; charset=utf-8")
      h2 == HeaderSet(h1, "X-Content-Type-Options", "nosniff")
  IN RawWrite(RawWriteHeader(h2, code), n)

(***************************************************************************)
(* The writer a handler is given: the recorder itself, or (s.wrapped) the  *)
(* responseWriter wrapper of the Logging stage, which records the status   *)
(* code and the bytes written and delegates.                               *)
(***************************************************************************)
newResponseWriterZero == [statusCode |-> 0, written |-> 0]

newResponseWriter == [statusCode |-> StatusOK, written |-> 0]

WriteHeader(s, code) ==
  IF s.wrapped
  THEN [s EXCEPT !.rw.statusCode = code, !.w = RawWriteHeader(@, code)]
  ELSE [s EXCEPT !.w = RawWriteHeader(@, code)]

Write(s, n) ==
  IF s.wrapped
  THEN [s EXCEPT !.w = RawWrite(@, n), !.rw.written = @ + n]
  ELSE [s EXCEPT !.w = RawWrite(@, n)]

(***************************************************************************)
(* The innermost handler.  What a route handler does with a request is an  *)
(* input: r.ops is the sequence of its calls on the writer, its sleeps and *)
(* its panic.  A panic ends the handler; s.panic holds the panic value     *)
(* while the stack unwinds ("" when there is none) and s.raised keeps it.  *)
(* s.trace lists the stages the request began and the calls of next;       *)
(* s.invoked counts the calls of the innermost handler and s.seenRequestID *)
(* is the request id of the scope it was given; s.seenRecords is the       *)
(* number of records written when it was invoked and s.leftRecords the     *)
(* number written when it returned or panicked.                            *)
(***************************************************************************)
RECURSIVE RunOps(_, _)
RunOps(ops, s) ==
  IF ops = << >> \/ s.panic # "" THEN s
  ELSE LET op == Head(ops)
           s1 == CASE op[1] = "WriteHeader" -> WriteHeader(s, op[2])
                   [] op[1] = "Write" -> Write(s, op[2])
                   [] op[1] = "Sleep" -> [s EXCEPT !.now = @ + op[2]]
                   [] op[1] = "panic" -> [s EXCEPT !.panic = op[2], !.raised = op[2]]
       IN RunOps(Tail(ops), s1)

Event(stage, ev) == [stage |-> stage, ev |-> ev]
Begin(s, stage) == [s EXCEPT !.trace = Append(@, Event(stage, "begin"))]
Delegate(s, stage) == [s EXCEPT !.trace = Append(@, Event(stage, "next"))]

\* the handler registered for the route, or a test's handler
RouteHandler(r, s) ==
  LET s1 == Begin(s, "Route")
      s2 == [s1 EXCEPT !.invoked = @ + 1, !.seenRequestID = GetRequestID(r.ctx),
                       !.seenRecords = Len(s.out)]
      s3 == RunOps(r.ops, s2)
  IN [s3 EXCEPT !.leftRecords = Len(s3.out)]

(***************************************************************************)
(* h.ServeHTTP(w, r) for the handler h; defined after the middlewares.     *)
(***************************************************************************)
RECURSIVE ServeHTTP(_, _, _, _)

(***************************************************************************)
(* LoggingMiddleware.Handler: the Logging stage.  s.uuid is the value      *)
(* uuid.New().String() returns for this request.                           *)
(***************************************************************************)
requestIDAlwaysNew(r, s) == s.uuid

\* the inbound X-Request-ID, or a new one when it is empty
requestIDOf(r, s) ==
  IF r.header["X-Request-ID"] = "" THEN s.uuid ELSE r.header["X-Request-ID"]

SlowThreshold == 5

statusLevelExclusive(code) ==
  IF code > 400 THEN (IF code > 500 THEN "error" ELSE "warn") ELSE "none"

statusLevel(code) ==
  IF code >= 400 THEN (IF code >= 500 THEN "error" ELSE "warn") ELSE "none"

isSlowAtThreshold(duration) == duration >= SlowThreshold

\* "if duration > 5*time.Second"
isSlow(duration) == duration > SlowThreshold

\* the part of Handler that runs after next.ServeHTTP has returned
HandlerCompleted(lm, r, ctx, requestID, start, s) ==
  LET duration == s.now - start
      s1 == InfoContext(
              WithFields(lm.logger,
                [http_method |-> r.method, http_path |-> r.path,
                 http_status_code |-> s.rw.statusCode,
                 http_remote_addr |-> r.remoteAddr, request_id |-> requestID,
                 duration_ms |-> duration * 1000,
                 response_size |-> s.rw.written]),
              ctx, "HTTP request completed", s)
      s2 == IF isSlow(duration)
            THEN WarnContext(
                   WithFields(lm.logger,
                     [http_method |-> r.method, http_path |-> r.path,
                      duration_ms |-> duration * 1000, request_id |-> requestID]),
                   ctx, "Slow HTTP request detected", s1)
            ELSE s1
      logEntry == WithFields(lm.logger,
                    [http_method |-> r.method, http_path |-> r.path,
                     http_status_code |-> s.rw.statusCode,
                     request_id |-> requestID])
  IN CASE statusLevel(s.rw.statusCode) = "error" ->
            ErrorContext(logEntry, ctx, "HTTP request failed with server error", s2)
       [] statusLevel(s.rw.statusCode) = "warn" ->
            WarnContext(logEntry, ctx, "HTTP request failed with client error", s2)
       [] OTHER -> s2

unwindingNever(s) == FALSE

\* a panic is propagating out of next.ServeHTTP: the statements after the
\* call do not run
unwinding(s) == s.panic # ""

Handler(next, lm, r, s) ==
  LET s0 == Begin(s, "Logging")
      start == s0.now
      requestID == requestIDOf(r, s0)
      ctx == WithRequestID(r.ctx, requestID)
      r1 == [r EXCEPT !.ctx = ctx]
      s1 == [s0 EXCEPT !.w = HeaderSet(@, "X-Request-ID", requestID)]
      s2 == [s1 EXCEPT !.rw = newResponseWriter, !.wrapped = TRUE]
      s3 == InfoContext(
              WithFields(lm.logger,
                [http_method |-> r.method, http_path |-> r.path,
                 http_query |-> r.query, http_user_agent |-> r.userAgent,
                 http_remote_addr |-> r.remoteAddr, http_host |-> r.host,
                 request_id |-> requestID, content_length |-> r.contentLength]),
              ctx, "HTTP request started", s2)
      s4 == ServeHTTP(next, lm, r1, Delegate(s3, "Logging"))
      s5 == IF unwinding(s4) THEN s4
            ELSE HandlerCompleted(lm, r1, ctx, requestID, start, s4)
  IN [s5 EXCEPT !.wrapped = s.wrapped]

(***************************************************************************)
(* HealthCheckMiddleware                                                   *)
(***************************************************************************)
isHealthPathOnlyHealth(path) == path = "/health"

isHealthPath(path) == path = "/health" \/ path = "/healthz"

HealthCheckMiddleware(next, lm, r, s) ==
  LET s0 == Begin(s, "HealthCheck")
  IN IF isHealthPath(r.path)
     THEN ServeHTTP(next, lm, r, Delegate(s0, "HealthCheck"))
     ELSE Handler(next, lm, r, Delegate(s0, "HealthCheck"))

(***************************************************************************)
(* RecoveryMiddleware: the deferred function runs when next.ServeHTTP      *)
(* returns or panics; recover() ends the panic.                            *)
(***************************************************************************)
recoveredWithoutRecord(lm, r, s) ==
  [s EXCEPT !.panic = "", !.w = HttpError(@, 22, StatusInternalServerError)]

recovered(lm, r, s) ==
  LET requestID == GetRequestID(r.ctx)
      s1 == ErrorContext(
              WithFields(lm.logger,
                [http_method |-> r.method, http_path |-> r.path,
                 http_remote_addr |-> r.remoteAddr, request_id |-> requestID,
                 panic |-> s.panic]),
              r.ctx, "HTTP handler panic recovered", [s EXCEPT !.panic = ""])
  IN [s1 EXCEPT !.w = HttpError(@, 22, StatusInternalServerError)]

RecoveryMiddlewareRollback(next, lm, r, s) ==
  LET s0 == Begin(s, "Recovery")
      s1 == ServeHTTP(next, lm, r, Delegate(s0, "Recovery"))
      s2 == [s1 EXCEPT !.inner = [w |-> s1.w, out |-> s1.out]]
  IN IF s2.panic # ""
     THEN [recovered(lm, r, s2) EXCEPT !.requestCounts = s.requestCounts,
                                       !.lastReset = s.lastReset]
     ELSE s2

\* s.inner: the response and the records as next.ServeHTTP left them
RecoveryMiddleware(next, lm, r, s) ==
  LET s0 == Begin(s, "Recovery")
      s1 == ServeHTTP(next, lm, r, Delegate(s0, "Recovery"))
      s2 == [s1 EXCEPT !.inner = [w |-> s1.w, out |-> s1.out]]
  IN IF s2.panic # "" THEN recovered(lm, r, s2) ELSE s2

(***************************************************************************)
(* CORSMiddleware                                                          *)
(***************************************************************************)
setCORSHeaders(w) ==
  HeaderSet(
    HeaderSet(
      HeaderSet(w, "Access-Control-Allow-Origin", "*"),
      "Access-Control-Allow-Methods", "GET, POST, PUT, DELETE, OPTIONS"),
    "Access-Control-Allow-Headers", "Content-Type, Authorization, X-Request-ID")

isPreflightLowerCase(r) == r.method = "options"

\* r.Method == "OPTIONS"
isPreflight(r) == r.method = "OPTIONS"

hasOriginUnlessPreflight(r) == r.header["Origin"] # "" /\ r.method # "OPTIONS"

\* origin != ""
hasOrigin(r) == r.header["Origin"] # ""

CORSMiddleware(next, lm, r, s) ==
  LET s0 == Begin(s, "CORS")
      origin == r.header["Origin"]
      s1 == IF hasOrigin(r)
            THEN DebugContext(
                   WithFields(lm.logger,
                     [http_method |-> r.method, http_path |-> r.path,
                      origin |-> origin, request_id |-> GetRequestID(r.ctx)]),
                   r.ctx, "CORS request received", s0)
            ELSE s0
      s2 == [s1 EXCEPT !.w = setCORSHeaders(@)]
  IN IF isPreflight(r)
     THEN WriteHeader(
            DebugContext(
              WithFields(lm.logger,
                [http_path |-> r.path, origin |-> origin,
                 request_id |-> GetRequestID(r.ctx)]),
              r.ctx, "CORS preflight request handled", s2),
            StatusOK)
     ELSE ServeHTTP(next, lm, r, Delegate(s2, "CORS"))

(***************************************************************************)
(* SecurityHeadersMiddleware                                               *)
(***************************************************************************)
setSecurityHeadersNoHSTS(w) ==
  HeaderSet(
    HeaderSet(
      HeaderSet(w, "X-Content-Type-Options", "nosniff"),
      "X-Frame-Options", "DENY"),
    "X-XSS-Protection", "1; mode=block")

setSecurityHeaders(w) ==
  HeaderSet(
    HeaderSet(
      HeaderSet(
        HeaderSet(w, "X-Content-Type-Options", "nosniff"),
        "X-Frame-Options", "DENY"),
      "X-XSS-Protection", "1; mode=block"),
    "Strict-Transport-Security", "max-age=31536000; includeSubDomains")

SecurityHeadersMiddleware(next, lm, r, s) ==
  LET s0 == Begin(s, "SecurityHeaders")
      s1 == [s0 EXCEPT !.w = setSecurityHeaders(@)]
      s2 == IF r.userAgent = ""
            THEN WarnContext(
                   WithFields(lm.logger,
                     [http_method |-> r.method, http_path |-> r.path,
                      http_remote_addr |-> r.remoteAddr,
                      request_id |-> GetRequestID(r.ctx)]),
                   r.ctx, "Request with empty User-Agent detected", s1)
            ELSE s1
      s3 == IF r.path # r.escapedPath
            THEN WarnContext(
                   WithFields(lm.logger,
                     [http_method |-> r.method, http_path |-> r.path,
                      escaped_path |-> r.escapedPath,
                      http_remote_addr |-> r.remoteAddr,
                      request_id |-> GetRequestID(r.ctx)]),
                   r.ctx, "Request with URL encoding detected", s2)
            ELSE s2
  IN ServeHTTP(next, lm, r, Delegate(s3, "SecurityHeaders"))

(***************************************************************************)
(* RateLimitMiddleware.  requestCounts and lastReset are the closure       *)
(* variables of the handler it returns; a key the map does not hold reads  *)
(* as 0.                                                                   *)
(***************************************************************************)
Clients == {"10.0.0.1:1000", "10.0.0.2:2000"}

emptyCounts == [c \in Clients |-> 0]

\* time.Since(lastReset) > time.Minute
windowExpired(t, reset) == t - reset > Window

rateExceededAtLimit(count) == count >= HardLimit

\* requestCounts[clientIP] > 100
rateExceeded(count) == count > HardLimit

\* requestCounts[clientIP] > 50
rateHighAtLimit(count) == count >= SoftLimit

rateHigh(count) == count > SoftLimit

rateLimitDeny(lm, r, s) ==
  LET s1 == WarnContext(
              WithFields(lm.logger,
                [http_method |-> r.method, http_path |-> r.path,
                 http_remote_addr |-> r.remoteAddr,
                 request_count |-> s.requestCounts[r.remoteAddr],
                 request_id |-> GetRequestID(r.ctx)]),
              r.ctx, "Rate limit exceeded", s)
  IN [s1 EXCEPT !.w = HttpError(@, 20, StatusTooManyRequests)]

rateLimitHigh(lm, r, s) ==
  InfoContext(
    WithFields(lm.logger,
      [http_remote_addr |-> r.remoteAddr,
       request_count |-> s.requestCounts[r.remoteAddr],
       request_id |-> GetRequestID(r.ctx)]),
    r.ctx, "High request rate detected", s)

\* the handler from the threshold checks on, the request being counted
rateLimitDecide(next, lm, r, s) ==
  IF rateExceeded(s.requestCounts[r.remoteAddr])
  THEN rateLimitDeny(lm, r, s)
  ELSE LET s1 == IF rateHigh(s.requestCounts[r.remoteAddr])
                 THEN rateLimitHigh(lm, r, s)
                 ELSE s
       IN ServeHTTP(next, lm, r, Delegate(s1, "RateLimit"))

RateLimitMiddlewareOneCount(next, lm, r, s) ==
  LET s0 == Begin(s, "RateLimit")
      s1 == IF windowExpired(s0.now, s0.lastReset)
            THEN [s0 EXCEPT !.requestCounts = emptyCounts, !.lastReset = s0.now]
            ELSE s0
      s2 == [s1 EXCEPT !.requestCounts = [c \in Clients |-> @[c] + 1]]
  IN rateLimitDecide(next, lm, r, s2)

RateLimitMiddleware(next, lm, r, s) ==
  LET s0 == Begin(s, "RateLimit")
      s1 == IF windowExpired(s0.now, s0.lastReset)
            THEN [s0 EXCEPT !.requestCounts = emptyCounts, !.lastReset = s0.now]
            ELSE s0
      clientIP == r.remoteAddr
      s2 == [s1 EXCEPT !.requestCounts[clientIP] = @ + 1]
  IN rateLimitDecide(next, lm, r, s2)

(***************************************************************************)
(* main: router.Use applies the middlewares in the order they are added,   *)
(* the first one outermost, around the route's handler.  Which requests    *)
(* the router dispatches to the chain is left open: the chain is run for   *)
(* every method and path.                                                  *)
(***************************************************************************)
\* the handler a middleware returned for next, or the route's handler, runs
ServeHTTP(h, lm, r, s) ==
  IF h = << >> THEN RouteHandler(r, s)
  ELSE CASE Head(h) = "Recovery" -> RecoveryMiddleware(Tail(h), lm, r, s)
         [] Head(h) = "SecurityHeaders" -> SecurityHeadersMiddleware(Tail(h), lm, r, s)
         [] Head(h) = "CORS" -> CORSMiddleware(Tail(h), lm, r, s)
         [] Head(h) = "RateLimit" -> RateLimitMiddleware(Tail(h), lm, r, s)
         [] Head(h) = "HealthCheck" -> HealthCheckMiddleware(Tail(h), lm, r, s)
         [] Head(h) = "Logging" -> Handler(Tail(h), lm, r, s)

\* the route's handler alone, as the tests wrap it
RouteOnly == << >>

MiddlewaresRateLimitFirst ==
  <<"Recovery", "SecurityHeaders", "RateLimit", "CORS", "HealthCheck">>

MiddlewaresHealthFirst ==
  <<"Recovery", "SecurityHeaders", "CORS", "HealthCheck", "RateLimit">>

\* the router.Use calls of main, in their order
Middlewares ==
  <<"Recovery", "SecurityHeaders", "CORS", "RateLimit", "HealthCheck">>

Pipeline(lm, r, s) == ServeHTTP(Middlewares, lm, r, s)

(***************************************************************************)
(* State.                                                                  *)
(*   requestCounts, lastReset  the rate limiter's closure variables        *)
(*   now                       the wall clock, in seconds                  *)
(*   logger                    the logger the middleware was built with    *)
(*   last                      the request whose handler has returned and   *)
(*                             whose response the server is sending, with  *)
(*                             the state its execution ended in: the       *)
(*                             response, the records written for it, the   *)
(*                             stages it ran; not served when idle         *)
(*   procs                     the goroutines running the rate limiter's   *)
(*                             handler concurrently: the statement each is *)
(*                             at (pc), its request, the count it loaded   *)
(*                             for the increment (tmp), whether the map it *)
(*                             loaded from has been replaced since (stale) *)
(*   observed                  per client, the requests the limiter has    *)
(*                             counted since the last window reset         *)
(*   deniedBefore              the clients that had sent more than the     *)
(*                             hard limit when the window was last reset   *)
(*   crashed                   the runtime has ended the process           *)
(*   heap, sinks, lastOp, exited   the logger objects, see logVars         *)
(***************************************************************************)
VARIABLES requestCounts, lastReset, now, logger, last, procs, observed,
          deniedBefore, crashed, heap, sinks, lastOp, exited

vars == <<requestCounts, lastReset, now, logger, last, procs, observed,
          deniedBefore, crashed, heap, sinks, lastOp, exited>>

\* the requests' side of the state
httpVars == <<requestCounts, lastReset, now, logger, last, procs, observed,
              deniedBefore, crashed>>
\* the logger objects: the heap of Logger structs and field maps, the writes
\* each sink has received, the last call made on a logger (lastOp), and
\* whether the process has exited
logVars == <<heap, sinks, lastOp, exited>>

raceVars == <<procs, crashed>>
ghostVars == <<observed, deniedBefore>>

\* the state a request's execution starts in
NewExec(counts, reset, t, uuid) ==
  [w |-> NewRecorder, rw |-> newResponseWriter, wrapped |-> FALSE,
   out |-> << >>, requestCounts |-> counts, lastReset |-> reset, now |-> t,
   trace |-> << >>, panic |-> "", raised |-> "", invoked |-> 0,
   seenRequestID |-> "", seenRecords |-> 0, leftRecords |-> 0,
   inner |-> [w |-> NewRecorder, out |-> << >>],
   uuid |-> uuid]

(***************************************************************************)
(* Requests and the behaviours of the innermost handler.                   *)
(***************************************************************************)
OkOps == << <<"WriteHeader", 200>>, <<"Write", 2>> >>
SilentOps == << >>
NotFoundOps == << <<"WriteHeader", 404>> >>
UnavailableOps == << <<"WriteHeader", 503>>, <<"Write", 2>> >>
PanicOps == << <<"panic", "boom">> >>
LatePanicOps == << <<"WriteHeader", 200>>, <<"Write", 1>>, <<"panic", "boom">> >>

Behaviours == {OkOps, SilentOps, NotFoundOps, UnavailableOps, PanicOps, LatePanicOps}

UUIDs == {"uuid-1", "uuid-2"}

\* the inbound X-Request-ID of a request and the value uuid.New() returns
\* while it is served
RequestIDs == {<<"", u>> : u \in UUIDs} \cup {<<"existing-id", "uuid-1">>}

Request(method, path, escaped, agent, addr, rid, origin, ops) ==
  [method |-> method, path |-> path, escapedPath |-> escaped, query |-> "",
   host |-> "localhost", userAgent |-> agent, remoteAddr |-> addr,
   header |-> [h \in {"X-Request-ID", "Origin"} |->
                 IF h = "Origin" THEN origin ELSE rid],
   contentLength |-> 0, ctx |-> Background, ops |-> ops]

NoRequest == Request("", "", "", "", "", "", "", << >>)

\* method and path of the requests sent through the chain: the two kinds of
\* route main registers, and a preflight for each path
Targets ==
  {<<"POST", "/ingest">>, <<"GET", "/health">>,
   <<"OPTIONS", "/ingest">>, <<"OPTIONS", "/health">>}

\* the requests sent through main's pipeline
PipelineRequests ==
  { Request(t[1], t[2], t[2], a, "10.0.0.1:1000", rid, o, ops) :
      t \in Targets, a \in {"agent"}, rid \in {"", "existing-id"},
      o \in {"", "http://o"}, ops \in Behaviours }

\* the requests of the rate limiter's test, from two client addresses
LimiterRequests ==
  { Request("GET", "/test", "/test", "agent", c, "", "",
            << <<"WriteHeader", 200>> >>) : c \in Clients }

Loggers ==
  { [level |-> l, service |-> "log-ingestion", component |-> "http",
     format |-> "JSON", fields |-> NoFields] : l \in Levels }

Procs == {"h1", "h2"}

IdleProc == [pc |-> "idle"]

Idle == [served |-> FALSE]

\* the configuration NewFromEnv builds when the environment sets nothing
DefaultConfig ==
  [Level |-> "INFO", Format |-> "JSON", Service |-> "log-ingestion",
   Component |-> "main", Fields |-> NoFields]

Sinks == {Stdout, Buffer}
NoWrites == [k \in Sinks |-> << >>]
NoOp == [op |-> "none"]

Init ==
  /\ requestCounts = emptyCounts
  /\ lastReset = 0
  /\ now = 0
  /\ logger \in Loggers
  /\ last = Idle
  /\ procs = [p \in Procs |-> IdleProc]
  /\ observed = emptyCounts
  /\ deniedBefore = {}
  /\ crashed = FALSE
  /\ heap = New(DefaultConfig).heap
  /\ sinks = NoWrites
  /\ lastOp = NoOp
  /\ exited = FALSE

\* the clock advances by a full window or by one second more
ClockSteps == {Window, Window + 1}

Tick ==
  \E d \in ClockSteps :
    /\ ~last.served
    /\ now + d <= MaxTime
    /\ now' = now + d
    /\ UNCHANGED <<requestCounts, lastReset, logger, last, raceVars, ghostVars, logVars>>

\* the effect of one request's execution on the program state
Began(s, stage) == \E i \in 1..Len(s.trace) : s.trace[i] = Event(stage, "begin")

ServedState(r, s) ==
  /\ ~last.served
  /\ s.now <= MaxTime
  /\ requestCounts' = s.requestCounts
  /\ lastReset' = s.lastReset
  /\ now' = s.now
  /\ last' = [served |-> TRUE, r |-> r, s |-> s]
  /\ observed' =
       IF ~Began(s, "RateLimit") THEN observed
       ELSE IF now - lastReset > Window
            THEN [emptyCounts EXCEPT ![r.remoteAddr] = 1]
            ELSE [observed EXCEPT ![r.remoteAddr] = @ + 1]
  /\ deniedBefore' =
       IF Began(s, "RateLimit") /\ now - lastReset > Window
       THEN {c \in Clients : observed[c] > 100}
       ELSE deniedBefore

Served(r, s) ==
  /\ ServedState(r, s)
  /\ UNCHANGED <<logger, raceVars, logVars>>

\* one request through the pipeline main wires
Serve ==
  \E r \in PipelineRequests, u \in UUIDs :
    /\ <<r.header["X-Request-ID"], u>> \in RequestIDs
    /\ observed[r.remoteAddr] < MaxCount
    /\ Served(r, Pipeline([logger |-> logger], r,
                          NewExec(requestCounts, lastReset, now, u)))

\* the server has sent the response and waits for the next request
Respond ==
  /\ last.served
  /\ last' = Idle
  /\ UNCHANGED <<requestCounts, lastReset, now, logger, raceVars, ghostVars, logVars>>

Next == Serve \/ Respond \/ Tick

Spec == Init /\ [][Next]_vars

\* one request through the handler RateLimitMiddleware returned for a test handler
LimiterServe ==
  \E r \in LimiterRequests :
    /\ observed[r.remoteAddr] <
         (IF r.remoteAddr = "10.0.0.1:1000" THEN MaxCount ELSE MaxOther)
    /\ Served(r, RateLimitMiddleware(RouteOnly, [logger |-> logger], r,
                                     NewExec(requestCounts, lastReset, now, "")))

LimiterNext == LimiterServe \/ Respond \/ Tick

SpecLimiter == Init /\ [][LimiterNext]_vars

(***************************************************************************)
(* HealthCheckMiddleware around a test handler, as its test wraps it: the  *)
(* two reserved paths, near misses of them and another path.  Nothing      *)
(* recovers a panic of the handler here.                                   *)
(***************************************************************************)
HealthPaths == {"/health", "/healthz", "/health/", "/healthcheck", "/api/test"}

HealthRequests ==
  { Request("GET", p, p, "agent", "10.0.0.1:1000", rid, "", ops) :
      p \in HealthPaths, rid \in {"", "existing-id"}, ops \in Behaviours }

HealthServe ==
  \E r \in HealthRequests, u \in UUIDs :
    /\ <<r.header["X-Request-ID"], u>> \in RequestIDs
    /\ Served(r, HealthCheckMiddleware(RouteOnly, [logger |-> logger], r,
                                       NewExec(requestCounts, lastReset, now, u)))

HealthNext == HealthServe \/ Respond

SpecHealth == Init /\ [][HealthNext]_vars

(***************************************************************************)
(* LoggingMiddleware.Handler around a test handler, as its tests wrap it:  *)
(* handlers that answer with one status code, that write a body only, that *)
(* write nothing, and that panic.                                          *)
(***************************************************************************)
StatusCodes == {200, 201, 399, 400, 404, 499, 500, 503}

LoggingBehaviours ==
  {<< <<"WriteHeader", c>> >> : c \in StatusCodes}
    \cup {OkOps, SilentOps, << <<"Write", 2>> >>, PanicOps}

LoggingRequests ==
  { Request("GET", "/test", "/test", "test-agent", "10.0.0.1:1000", rid, "", ops) :
      rid \in {"", "existing-id"}, ops \in LoggingBehaviours }

LoggingServe ==
  \E r \in LoggingRequests, u \in UUIDs :
    /\ <<r.header["X-Request-ID"], u>> \in RequestIDs
    /\ Served(r, Handler(RouteOnly, [logger |-> logger], r,
                         NewExec(requestCounts, lastReset, now, u)))

LoggingNext == LoggingServe \/ Respond

SpecLogging == Init /\ [][LoggingNext]_vars

(***************************************************************************)
(* LoggingMiddleware.Handler around handlers that take time: the handler   *)
(* sleeps for some seconds and then answers with a status code or panics,  *)
(* as the handler of TestLoggingMiddleware_SlowRequest sleeps 6 seconds.   *)
(***************************************************************************)
SleepSeconds == {0, 4, 5, 6}
SlowCodes == {200, 404, 500}

SlowBehaviours ==
  {<< <<"Sleep", d>>, <<"WriteHeader", c>> >> : d \in SleepSeconds, c \in SlowCodes}
    \cup {<< <<"Sleep", d>>, <<"panic", "boom">> >> : d \in SleepSeconds}

SlowRequests ==
  { Request("GET", "/test", "/test", "test-agent", "10.0.0.1:1000", rid, "", ops) :
      rid \in {"", "existing-id"}, ops \in SlowBehaviours }

SlowServe ==
  \E r \in SlowRequests, u \in UUIDs :
    /\ <<r.header["X-Request-ID"], u>> \in RequestIDs
    /\ Served(r, Handler(RouteOnly, [logger |-> logger], r,
                         NewExec(requestCounts, lastReset, now, u)))

SlowNext == SlowServe \/ Respond

SpecSlow == Init /\ [][SlowNext]_vars

(***************************************************************************)
(* main's pipeline serving requests whose handlers panic now and then.     *)
(* Here `last` keeps the request answered before (served = FALSE) until    *)
(* the next one is served, so that a request can be compared with the one  *)
(* before it, and lastOp.afterPanic tells whether the handler of the       *)
(* request before panicked.                                                *)
(***************************************************************************)
MaxRecover == 3

RecoverRequests ==
  { Request(t[1], t[2], t[2], "agent", "10.0.0.1:1000", "", "", ops) :
      t \in {<<"POST", "/ingest">>, <<"GET", "/health">>},
      ops \in {OkOps, NotFoundOps, PanicOps, LatePanicOps} }

RecoverServe ==
  \E r \in RecoverRequests :
    /\ observed[r.remoteAddr] < MaxRecover
    /\ ServedState(r, Pipeline([logger |-> logger], r,
                               NewExec(requestCounts, lastReset, now, "uuid-1")))
    /\ lastOp' = [op |-> "served",
                  afterPanic |-> "s" \in DOMAIN last /\ last.s.raised # ""]
    /\ UNCHANGED <<logger, raceVars, heap, sinks, exited>>

RecoverRespond ==
  /\ last.served
  /\ last' = [last EXCEPT !.served = FALSE]
  /\ UNCHANGED <<requestCounts, lastReset, now, logger, raceVars, ghostVars, logVars>>

RecoverNext == RecoverServe \/ RecoverRespond \/ Tick

SpecRecover == Init /\ [][RecoverNext]_vars

(***************************************************************************)
(* main's pipeline serving health probes and ingestion requests of one     *)
(* client: GET /health, GET /healthz and POST /ingest, the routes main     *)
(* registers, each answered 200 by its handler.                            *)
(***************************************************************************)
ProbeRequests ==
  { Request(t[1], t[2], t[2], "agent", "10.0.0.1:1000", "", "", OkOps) :
      t \in {<<"GET", "/health">>, <<"GET", "/healthz">>, <<"POST", "/ingest">>} }

ProbeServe ==
  \E r \in ProbeRequests :
    /\ observed[r.remoteAddr] < MaxCount
    /\ Served(r, Pipeline([logger |-> logger], r,
                          NewExec(requestCounts, lastReset, now, "uuid-1")))

ProbeNext == ProbeServe \/ Respond \/ Tick

SpecProbe == Init /\ [][ProbeNext]_vars

(***************************************************************************)
(* Several handlers made by separate calls of RateLimitMiddleware.  Here   *)
(* requestCounts and lastReset hold the closure variables of every handler *)
(* made so far: requestCounts[h] and lastReset[h] are those of handler h.  *)
(***************************************************************************)
MaxHandlers == 2

\* the variables a call of RateLimitMiddleware at time t creates
NewRateLimiter(t) == [requestCounts |-> emptyCounts, lastReset |-> t]

StoreLimiterShared(h, s) ==
  [requestCounts |-> [g \in DOMAIN requestCounts |-> s.requestCounts],
   lastReset |-> [g \in DOMAIN lastReset |-> s.lastReset]]

\* the handler h has run to state s: its closure variables are its own
StoreLimiter(h, s) ==
  [requestCounts |-> [requestCounts EXCEPT ![h] = s.requestCounts],
   lastReset |-> [lastReset EXCEPT ![h] = s.lastReset]]

HandlerRequest ==
  Request("GET", "/test", "/test", "agent", "10.0.0.1:1000", "", "",
          << <<"WriteHeader", 200>> >>)

InitHandlers ==
  /\ requestCounts = << >>
  /\ lastReset = << >>
  /\ now = 0
  /\ logger \in Loggers
  /\ last = Idle
  /\ procs = [p \in Procs |-> IdleProc]
  /\ observed = emptyCounts
  /\ deniedBefore = {}
  /\ crashed = FALSE
  /\ heap = New(DefaultConfig).heap
  /\ sinks = NoWrites
  /\ lastOp = NoOp
  /\ exited = FALSE

\* wrappedHandler := middleware.RateLimitMiddleware(testHandler)
CallRateLimitMiddleware ==
  /\ ~last.served
  /\ Len(requestCounts) < MaxHandlers
  /\ requestCounts' = Append(requestCounts, NewRateLimiter(now).requestCounts)
  /\ lastReset' = Append(lastReset, NewRateLimiter(now).lastReset)
  /\ UNCHANGED <<now, logger, last, raceVars, ghostVars, logVars>>

\* wrappedHandler.ServeHTTP(rr, req) for one of the handlers
HandlerServe ==
  \E h \in 1..Len(requestCounts) :
    LET r == HandlerRequest
        s == RateLimitMiddleware(RouteOnly, [logger |-> logger], r,
                                 NewExec(requestCounts[h], lastReset[h], now, ""))
    IN /\ ~last.served
       /\ requestCounts[h][r.remoteAddr] < (IF h = 1 THEN MaxCount ELSE MaxOther)
       /\ requestCounts' = StoreLimiter(h, s).requestCounts
       /\ lastReset' = StoreLimiter(h, s).lastReset
       /\ last' = [served |-> TRUE, r |-> r, s |-> s, h |-> h]
       /\ UNCHANGED <<now, logger, raceVars, ghostVars, logVars>>

HandlersNext == CallRateLimitMiddleware \/ HandlerServe \/ Respond \/ Tick

SpecHandlers == InitHandlers /\ [][HandlersNext]_vars

(***************************************************************************)
(* CORSMiddleware around a test handler, as its test wraps it: requests    *)
(* with and without an Origin header, preflights and other methods.        *)
(***************************************************************************)
CORSMethods == {"GET", "POST", "PUT", "OPTIONS"}

CORSRequests ==
  { Request(m, p, p, "agent", "10.0.0.1:1000", "", o, ops) :
      m \in CORSMethods, p \in {"/test", "/ingest"},
      o \in {"", "https://example.com"}, ops \in {OkOps, NotFoundOps} }

CORSServe ==
  \E r \in CORSRequests :
    /\ r.method \in CORSMethods
    /\ Served(r, CORSMiddleware(RouteOnly, [logger |-> logger], r,
                                NewExec(requestCounts, lastReset, now, "")))

CORSNext == CORSServe \/ Respond

SpecCORS == Init /\ [][CORSNext]_vars

(***************************************************************************)
(* The handler RateLimitMiddleware returns, run by several goroutines at   *)
(* once, one action per access to the closure variables.  Nothing guards   *)
(* requestCounts and lastReset.  requestCounts[clientIP]++ is a load and a *)
(* store through the address of the map's slot: a store into a map that    *)
(* has been replaced in between is lost.                                   *)
(***************************************************************************)
AtPc(p, label) == procs[p].pc = label

Goto(p, label) == procs' = [procs EXCEPT ![p].pc = label]

\* a request arrives and a goroutine starts the handler
RaceStart(p) ==
  \E r \in LimiterRequests :
    /\ ~crashed
    /\ AtPc(p, "idle")
    /\ observed[r.remoteAddr] < MaxRaceCount
    /\ procs' = [procs EXCEPT ![p] =
                   [pc |-> "check", r |-> r, tmp |-> 0, stale |-> FALSE,
                    s |-> Begin(NewExec(emptyCounts, 0, 0, ""), "RateLimit")]]
    /\ UNCHANGED <<requestCounts, lastReset, now, logger, last, ghostVars, crashed, logVars>>

\* if time.Since(lastReset) > time.Minute
RaceCheck(p) ==
  /\ ~crashed
  /\ AtPc(p, "check")
  /\ Goto(p, IF windowExpired(now, lastReset) THEN "resetMap" ELSE "load")
  /\ UNCHANGED <<requestCounts, lastReset, now, logger, last, ghostVars, crashed, logVars>>

\* requestCounts = make(map[string]int)
RaceResetMap(p) ==
  /\ ~crashed
  /\ AtPc(p, "resetMap")
  /\ requestCounts' = emptyCounts
  /\ observed' = emptyCounts
  /\ deniedBefore' = {c \in Clients : observed[c] > 100}
  /\ procs' = [q \in Procs |->
                 IF q = p THEN [procs[q] EXCEPT !.pc = "resetTime"]
                 ELSE IF procs[q].pc = "store" THEN [procs[q] EXCEPT !.stale = TRUE]
                 ELSE procs[q]]
  /\ UNCHANGED <<lastReset, now, logger, last, crashed, logVars>>

\* lastReset = time.Now()
RaceResetTime(p) ==
  /\ ~crashed
  /\ AtPc(p, "resetTime")
  /\ lastReset' = now
  /\ Goto(p, "load")
  /\ UNCHANGED <<requestCounts, now, logger, last, ghostVars, crashed, logVars>>

\* requestCounts[clientIP]++ : the load
RaceLoad(p) ==
  /\ ~crashed
  /\ AtPc(p, "load")
  /\ procs' = [procs EXCEPT ![p].pc = "store",
                            ![p].tmp = requestCounts[procs[p].r.remoteAddr],
                            ![p].stale = FALSE]
  /\ UNCHANGED <<requestCounts, lastReset, now, logger, last, ghostVars, crashed, logVars>>

\* requestCounts[clientIP]++ : the store
RaceStore(p) ==
  /\ ~crashed
  /\ AtPc(p, "store")
  /\ requestCounts' = IF procs[p].stale THEN requestCounts
                      ELSE [requestCounts EXCEPT ![procs[p].r.remoteAddr] = procs[p].tmp + 1]
  /\ observed' = [observed EXCEPT ![procs[p].r.remoteAddr] = @ + 1]
  /\ Goto(p, "decide")
  /\ UNCHANGED <<lastReset, now, logger, last, deniedBefore, crashed, logVars>>

\* the threshold checks, the records, and the 429 or the inner handler
RaceDecide(p) ==
  /\ ~crashed
  /\ AtPc(p, "decide")
  /\ procs' = [procs EXCEPT
       ![p].pc = "done",
       ![p].s = rateLimitDecide(RouteOnly, [logger |-> logger], procs[p].r,
                  [@ EXCEPT !.requestCounts = requestCounts,
                            !.lastReset = lastReset, !.now = now])]
  /\ UNCHANGED <<requestCounts, lastReset, now, logger, last, ghostVars, crashed, logVars>>

\* the handler has returned and the response is sent
RaceFinish(p) ==
  /\ ~crashed
  /\ AtPc(p, "done")
  /\ procs' = [procs EXCEPT ![p] = IdleProc]
  /\ UNCHANGED <<requestCounts, lastReset, now, logger, last, ghostVars, crashed, logVars>>

\* the Go runtime finds two goroutines in the map at once, one of them
\* writing ("fatal error: concurrent map writes"), and ends the process
usesMap(p) == procs[p].pc \in {"load", "decide"}

MapFault ==
  /\ ~crashed
  /\ \E p, q \in Procs : p # q /\ AtPc(p, "load") /\ usesMap(q)
  /\ crashed' = TRUE
  /\ UNCHANGED <<requestCounts, lastReset, now, logger, last, procs, ghostVars, logVars>>

RaceTick == ~crashed /\ Tick

RaceNext ==
  \/ \E p \in Procs :
       \/ RaceStart(p) \/ RaceCheck(p) \/ RaceResetMap(p) \/ RaceResetTime(p)
       \/ RaceLoad(p) \/ RaceStore(p) \/ RaceDecide(p) \/ RaceFinish(p)
  \/ MapFault
  \/ RaceTick

SpecRace == Init /\ [][RaceNext]_vars

(***************************************************************************)
(* Calls on logger objects, one after another, as the logger's tests make  *)
(* them: a logger built by New, loggers derived from it, and emit calls    *)
(* through the plain, the formatted and the context variant of each        *)
(* leveled method.                                                         *)
(***************************************************************************)
LevelNames == {"DEBUG", "INFO", "WARN", "ERROR", "FATAL"}
FormatNames == {"JSON", "TEXT"}

Configs ==
  { [Level |-> lv, Format |-> f, Service |-> "test-service",
     Component |-> "test-component", Fields |-> NoFields] :
      lv \in LevelNames, f \in FormatNames }

InitLogger ==
  /\ requestCounts = emptyCounts
  /\ lastReset = 0
  /\ now = 0
  /\ last = Idle
  /\ procs = [p \in Procs |-> IdleProc]
  /\ observed = emptyCounts
  /\ deniedBefore = {}
  /\ crashed = FALSE
  /\ \E config \in Configs : heap = New(config).heap
  /\ logger = Deref(heap, 1)
  /\ sinks = NoWrites
  /\ lastOp = NoOp
  /\ exited = FALSE

Pointers == 1..Len(heap.loggers)

\* the scopes passed to the context variants: empty, a request id only, all
\* three identifiers, and a trace id with a user id set to the empty string
Contexts ==
  {Background,
   WithRequestID(Background, "request-789"),
   WithRequestID(WithUserID(WithTraceID(Background, "trace-123"), "user-456"),
                 "request-789"),
   WithUserID(WithTraceID(Background, "trace-123"), "")}

FieldMaps ==
  {[k \in {"key1"} |-> "value1"], [k \in {"key1", "key2"} |-> "value2"]}

\* room for one more line in the sink the logger writes to
CanEmit(p) == ~exited /\ Len(sinks[heap.loggers[p].output]) < MaxLines

EmitOp(p, level, variant, ctx, message) ==
  [op |-> "emit", p |-> p, level |-> level, variant |-> variant, ctx |-> ctx,
   message |-> message]

\* l.Debug, l.Info, l.Warn, l.Error
Leveled ==
  \E p \in Pointers, level \in {DEBUG, INFO, WARN, ERROR} :
    /\ CanEmit(p)
    /\ sinks' = log(Deref(heap, p), level, "test message", sinks)
    /\ lastOp' = EmitOp(p, level, "plain", Background, "test message")
    /\ UNCHANGED <<heap, exited, httpVars>>

\* l.Debugf, l.Infof, l.Warnf, l.Errorf
Leveledf ==
  \E p \in Pointers, level \in {DEBUG, INFO, WARN, ERROR} :
    /\ CanEmit(p)
    /\ sinks' = log(Deref(heap, p), level, Sprintf("formatted ", "message"), sinks)
    /\ lastOp' = EmitOp(p, level, "formatted", Background, "formatted message")
    /\ UNCHANGED <<heap, exited, httpVars>>

\* l.DebugContext, l.InfoContext, l.WarnContext, l.ErrorContext
LeveledContext ==
  \E p \in Pointers, level \in {DEBUG, INFO, WARN, ERROR}, ctx \in Contexts :
    /\ CanEmit(p)
    /\ sinks' = logWithContextTo(Deref(heap, p), ctx, level, "test message", sinks)
    /\ lastOp' = EmitOp(p, level, "context", ctx, "test message")
    /\ UNCHANGED <<heap, exited, httpVars>>

\* l.Fatal and l.Fatalf: the record, then os.Exit(1)
Fatal ==
  \E p \in Pointers, variant \in {"plain", "formatted"} :
    LET message == IF variant = "plain" THEN "test message"
                   ELSE Sprintf("formatted ", "message")
    IN /\ CanEmit(p)
       /\ sinks' = log(Deref(heap, p), FATAL, message, sinks)
       /\ lastOp' = EmitOp(p, FATAL, variant, Background, message)
       /\ exited' = TRUE
       /\ UNCHANGED <<heap, httpVars>>

\* derived := l.WithFields(fields), for the loggers the emit calls go through
EmitWithFields ==
  \E p \in Pointers, fields \in FieldMaps :
    /\ ~exited
    /\ Len(heap.loggers) < MaxEmitLoggers
    /\ heap' = LoggerWithFields(heap, p, fields).heap
    /\ lastOp' = [op |-> "WithFields", p |-> p, fields |-> fields,
                  ptr |-> LoggerWithFields(heap, p, fields).ptr]
    /\ UNCHANGED <<sinks, exited, httpVars>>

EmitNext == Leveled \/ Leveledf \/ LeveledContext \/ Fatal \/ EmitWithFields

SpecEmit == InitLogger /\ [][EmitNext]_vars

(***************************************************************************)
(* Derivations: every method that returns a *Logger, applied to any logger *)
(* that exists.                                                            *)
(***************************************************************************)
CanDerive == ~exited /\ Len(heap.loggers) < MaxLoggers

\* the call made, its receiver p, its argument and the pointer it returned
DeriveOp(op, p, arg, res) == [op |-> op, p |-> p, arg |-> arg, ptr |-> res.ptr]

Derived(op, p, arg, res) ==
  /\ CanDerive
  /\ heap' = res.heap
  /\ lastOp' = DeriveOp(op, p, arg, res)
  /\ UNCHANGED <<sinks, exited, httpVars>>

CallWithFields ==
  \E p \in Pointers, fields \in FieldMaps :
    Derived("WithFields", p, fields, LoggerWithFields(heap, p, fields))

CallWithField ==
  \E p \in Pointers, kv \in {<<"key1", "value3">>, <<"key3", "value3">>} :
    Derived("WithField", p, [k \in {kv[1]} |-> kv[2]],
            LoggerWithField(heap, p, kv[1], kv[2]))

CallWithError ==
  \E p \in Pointers, err \in {"", "test error"} :
    Derived("WithError", p, err, LoggerWithError(heap, p, err))

CallWithDuration ==
  \E p \in Pointers, d \in {2} :
    Derived("WithDuration", p, d, LoggerWithDuration(heap, p, d))

CallWithComponent ==
  \E p \in Pointers, component \in {"new-component"} :
    Derived("WithComponent", p, component, LoggerWithComponent(heap, p, component))

DeriveNext ==
  CallWithFields \/ CallWithField \/ CallWithError \/ CallWithDuration
    \/ CallWithComponent

SpecDerive == InitLogger /\ [][DeriveNext]_vars

(***************************************************************************)
(* Concurrent emission: tasks that share one logger and call Info on it.   *)
(* The logger takes no lock: fmt.Fprintln makes one Write call on the      *)
(* sink, and whether two such calls exclude each other is the sink's       *)
(* business.  Write on an os.File holds the descriptor's write lock for   *)
(* the whole line; Write on a bytes.Buffer reads the buffer's length,      *)
(* extends it and copies the line in, unsynchronised.                      *)
(***************************************************************************)
Tasks == 1..NumTasks

SetOutputOfAll(h, p, w) ==
  [h EXCEPT !.loggers = [q \in DOMAIN h.loggers |-> [h.loggers[q] EXCEPT !.output = w]]]

\* Logger.SetOutput: l.output = w
SetOutput(h, p, w) == [h EXCEPT !.loggers[p].output = w]

TaskMessage(t, i) == <<"goroutine", t, "message", i>>

\* the record task t emits next
TaskEntry(t) ==
  PlainEntry(Deref(heap, 1), INFO, TaskMessage(t, RecordsPerTask - procs[t].left + 1))

StartTask == [pc |-> "idle", left |-> RecordsPerTask, off |-> 0]

InitSink ==
  /\ requestCounts = emptyCounts
  /\ lastReset = 0
  /\ now = 0
  /\ last = Idle
  /\ procs = [t \in Tasks |-> StartTask]
  /\ observed = emptyCounts
  /\ deniedBefore = {}
  /\ crashed = FALSE
  /\ \E config \in Configs, w \in Sinks :
       /\ config.Level = "INFO"
       /\ heap = SetOutput(New(config).heap, 1, w)
  /\ logger = Deref(heap, 1)
  /\ sinks = NoWrites
  /\ lastOp = NoOp
  /\ exited = FALSE

SinkUnchanged ==
  UNCHANGED <<requestCounts, lastReset, now, logger, last, observed,
              deniedBefore, crashed, heap, lastOp, exited>>

\* Info on a logger whose sink is a file: the call's single Write appends the
\* whole line under the descriptor's lock
FileWrite(t) ==
  /\ procs[t].pc = "idle"
  /\ procs[t].left > 0
  /\ Deref(heap, 1).output = Stdout
  /\ sinks' = log(Deref(heap, 1), INFO, TaskEntry(t).message, sinks)
  /\ procs' = [procs EXCEPT ![t].left = @ - 1]
  /\ SinkUnchanged

\* Info on a logger whose sink is a buffer: Write first reads the length of
\* the buffer, the offset its line will be copied to
BufferGrow(t) ==
  /\ procs[t].pc = "idle"
  /\ procs[t].left > 0
  /\ Deref(heap, 1).output = Buffer
  /\ levelEnabled(Deref(heap, 1), INFO)
  /\ procs' = [procs EXCEPT ![t].pc = "copy", ![t].off = Len(sinks[Buffer])]
  /\ UNCHANGED sinks
  /\ SinkUnchanged

\* what a reader finds where the bytes of two lines were copied over each
\* other
Torn(a, b) == [format |-> a.format, data |-> <<"torn", a.data, b.data>>, newline |-> TRUE]

\* the contents a copy at offset off can leave in the buffer: the line in a
\* slot of its own, or, where another task's line already lies at that
\* offset, this line, the other line, or a mix of the two
Copied(buf, off, line) ==
  IF off = Len(buf)
  THEN {Append(buf, line)}
  ELSE {[buf EXCEPT ![off + 1] = c] : c \in {line, buf[off + 1], Torn(buf[off + 1], line)}}

\* ... and then copies the line to that offset
BufferCopy(t) ==
  /\ procs[t].pc = "copy"
  /\ \E buf \in Copied(sinks[Buffer], procs[t].off, Line(Deref(heap, 1), TaskEntry(t))) :
       sinks' = [sinks EXCEPT ![Buffer] = buf]
  /\ procs' = [procs EXCEPT ![t].pc = "idle", ![t].left = @ - 1]
  /\ SinkUnchanged

SinkNext == \E t \in Tasks : FileWrite(t) \/ BufferGrow(t) \/ BufferCopy(t)

SpecSink == InitSink /\ [][SinkNext]_vars

(***************************************************************************)
(* Scopes: the With...ID functions applied to a scope made before, the     *)
(* one just made or the one it was made from.                              *)
(***************************************************************************)
ScopeValues == {"", "id-1", "id-2"}

\* what the three getters return on a scope
ReadScope(ctx) ==
  [trace |-> GetTraceID(ctx), user |-> GetUserID(ctx), request |-> GetRequestID(ctx)]

NoScopeOp == [op |-> "scope", from |-> Background, ctx |-> Background]

InitScope ==
  /\ requestCounts = emptyCounts
  /\ lastReset = 0
  /\ now = 0
  /\ last = Idle
  /\ procs = [p \in Procs |-> IdleProc]
  /\ observed = emptyCounts
  /\ deniedBefore = {}
  /\ crashed = FALSE
  /\ heap = New(DefaultConfig).heap
  /\ logger = Deref(heap, 1)
  /\ sinks = NoWrites
  /\ lastOp = NoScopeOp
  /\ exited = FALSE

\* the set made: its kind and value, the scope it was applied to, what that
\* scope read before the call, and the scope returned
ScopeSet(kind, value, from, res) ==
  /\ Len(from) < MaxScopeDepth
  /\ lastOp' = [op |-> "set", kind |-> kind, value |-> value, from |-> from,
                before |-> ReadScope(from), ctx |-> res]
  /\ UNCHANGED <<heap, sinks, exited, httpVars>>

CallWithTraceID ==
  \E from \in {lastOp.from, lastOp.ctx}, v \in ScopeValues :
    ScopeSet("trace", v, from, WithTraceID(from, v))

CallWithUserID ==
  \E from \in {lastOp.from, lastOp.ctx}, v \in ScopeValues :
    ScopeSet("user", v, from, WithUserID(from, v))

CallWithRequestID ==
  \E from \in {lastOp.from, lastOp.ctx}, v \in ScopeValues :
    ScopeSet("request", v, from, WithRequestID(from, v))

ScopeNext == CallWithTraceID \/ CallWithUserID \/ CallWithRequestID

SpecScope == InitScope /\ [][ScopeNext]_vars

(***************************************************************************)
(* The Logging stage run by two goroutines at once, one action per call on *)
(* the middleware's logger lm.logger (pointer 1 of the heap).  requestID,  *)
(* ctx, wrapped and the logger WithFields returned are locals of the       *)
(* goroutine; the logger, the heap and the sink are shared.                *)
(***************************************************************************)
ConcRequests(p) ==
  { Request(t[1], t[2], t[2], "agent", t[3], rid, "", ops) :
      t \in (IF p = "h1" THEN {<<"POST", "/ingest", "10.0.0.1:1000">>}
                         ELSE {<<"GET", "/api/test", "10.0.0.2:2000">>}),
      rid \in {"", "existing-id"}, ops \in {OkOps, NotFoundOps} }

\* uuid.New() never returns the same value twice
NewUUID(p) == IF p = "h1" THEN "uuid-1" ELSE "uuid-2"

ConcConfigs == {c \in Configs : c.Level \in {"INFO", "WARN"}}

InitConc ==
  /\ requestCounts = emptyCounts
  /\ lastReset = 0
  /\ now = 0
  /\ last = Idle
  /\ procs = [p \in Procs |-> IdleProc]
  /\ observed = emptyCounts
  /\ deniedBefore = {}
  /\ crashed = FALSE
  /\ \E config \in ConcConfigs : heap = New(config).heap
  /\ logger = Deref(heap, 1)
  /\ sinks = NoWrites
  /\ lastOp = NoOp
  /\ exited = FALSE

ConcUnchanged ==
  UNCHANGED <<requestCounts, lastReset, now, logger, last, observed,
              deniedBefore, crashed, exited>>

\* the handler is entered: request id, scope, response header, wrapper
ConcStart(p) ==
  \E r \in ConcRequests(p) :
    LET s == NewExec(emptyCounts, 0, 0, NewUUID(p))
        requestID == requestIDOf(r, s)
        ctx == WithRequestID(r.ctx, requestID)
    IN /\ AtPc(p, "idle")
       /\ procs' = [procs EXCEPT ![p] =
                      [pc |-> "derive", record |-> "started",
                       r |-> [r EXCEPT !.ctx = ctx], requestID |-> requestID,
                       ctx |-> ctx, ptr |-> 0,
                       rw |-> newResponseWriter]]
       /\ UNCHANGED <<heap, sinks, lastOp>>
       /\ ConcUnchanged

\* the argument of the WithFields call made for a record
RecordFields(record, me) ==
  CASE record = "started" ->
         [http_method |-> me.r.method, http_path |-> me.r.path,
          http_query |-> me.r.query, http_user_agent |-> me.r.userAgent,
          http_remote_addr |-> me.r.remoteAddr, http_host |-> me.r.host,
          request_id |-> me.requestID, content_length |-> me.r.contentLength]
    [] record = "completed" ->
         [http_method |-> me.r.method, http_path |-> me.r.path,
          http_status_code |-> me.rw.statusCode,
          http_remote_addr |-> me.r.remoteAddr, request_id |-> me.requestID,
          duration_ms |-> 0, response_size |-> me.rw.written]
    [] record = "failed" ->
         [http_method |-> me.r.method, http_path |-> me.r.path,
          http_status_code |-> me.rw.statusCode, request_id |-> me.requestID]

RecordLevel(record, me) ==
  CASE record = "failed" /\ statusLevel(me.rw.statusCode) = "error" -> ERROR
    [] record = "failed" -> WARN
    [] OTHER -> INFO

RecordMessage(record, me) ==
  CASE record = "started" -> "HTTP request started"
    [] record = "completed" -> "HTTP request completed"
    [] record = "failed" /\ statusLevel(me.rw.statusCode) = "error" ->
         "HTTP request failed with server error"
    [] OTHER -> "HTTP request failed with client error"

\* lm.logger.WithFields(...)
ConcDerive(p) ==
  LET res == LoggerWithFields(heap, 1, RecordFields(procs[p].record, procs[p]))
  IN /\ AtPc(p, "derive")
     /\ heap' = res.heap
     /\ procs' = [procs EXCEPT ![p].pc = "emit", ![p].ptr = res.ptr]
     /\ UNCHANGED <<sinks, lastOp>>
     /\ ConcUnchanged

\* where the handler goes after a record
AfterRecord(me) ==
  CASE me.record = "started" -> "serve"
    [] me.record = "completed" /\ statusLevel(me.rw.statusCode) # "none" -> "derive"
    [] OTHER -> "done"

\* ....InfoContext(ctx, ...), WarnContext or ErrorContext on the logger
\* WithFields returned
ConcEmit(p) ==
  LET me == procs[p]
  IN /\ AtPc(p, "emit")
     /\ sinks' = logWithContextTo(Deref(heap, me.ptr), me.ctx,
                                  RecordLevel(me.record, me),
                                  RecordMessage(me.record, me), sinks)
     /\ lastOp' = [op |-> "record", proc |-> p, record |-> me.record]
     /\ procs' = [procs EXCEPT ![p].pc = AfterRecord(me),
                                ![p].record = IF me.record = "completed"
                                              THEN "failed" ELSE me.record]
     /\ UNCHANGED heap
     /\ ConcUnchanged

\* next.ServeHTTP(wrapped, r)
ConcServe(p) ==
  LET me == procs[p]
      s == RouteHandler(me.r, [NewExec(emptyCounts, 0, 0, "") EXCEPT !.wrapped = TRUE])
  IN /\ AtPc(p, "serve")
     /\ procs' = [procs EXCEPT ![p].pc = "derive", ![p].record = "completed",
                                ![p].rw = s.rw]
     /\ UNCHANGED <<heap, sinks, lastOp>>
     /\ ConcUnchanged

ConcNext ==
  \E p \in Procs : ConcStart(p) \/ ConcDerive(p) \/ ConcEmit(p) \/ ConcServe(p)

SpecConc == InitConc /\ [][ConcNext]_vars

(***************************************************************************)
(* Construction: New called with any level and format names.               *)
(***************************************************************************)
LevelInputs ==
  {"DEBUG", "INFO", "WARN", "WARNING", "ERROR", "FATAL", "INVALID", "",
   "debug", "info", "warn", "warning", "error", "fatal", "Debug", "TRACE"}

FormatInputs == {"JSON", "TEXT", "INVALID", "", "json", "text", "Text", "XML"}

NewConfigs ==
  { [Level |-> lv, Format |-> f, Service |-> "test-service",
     Component |-> "test-component", Fields |-> NoFields] :
      lv \in LevelInputs, f \in FormatInputs }

\* New(config): the configuration given and the logger returned
Construct ==
  \E config \in NewConfigs :
    /\ heap' = New(config).heap
    /\ lastOp' = [op |-> "New", config |-> config, ptr |-> New(config).ptr]
    /\ UNCHANGED <<sinks, exited, httpVars>>

NewNext == Construct

SpecNew == Init /\ [][NewNext]_vars

(***************************************************************************)
(* Fatal and Fatalf, statement by statement: l.log(FATAL, ...) and then    *)
(* os.Exit(1).  While a Fatal call is between the two the caller runs      *)
(* nothing else; after os.Exit nothing runs.                               *)
(***************************************************************************)
ExitStatus == 1

InFatal == lastOp.op = "fatal"

\* a call made before any Fatal
EarlierCall == ~InFatal /\ (Leveled \/ LeveledContext)

\* l.log(FATAL, message, nil) or l.log(FATAL, fmt.Sprintf(format, args...), nil)
FatalCall ==
  \E p \in Pointers, variant \in {"plain", "formatted"} :
    LET message == IF variant = "plain" THEN "test message"
                   ELSE Sprintf("formatted ", "message")
    IN /\ ~exited
       /\ ~InFatal
       /\ sinks' = log(Deref(heap, p), FATAL, message, sinks)
       /\ lastOp' = [op |-> "fatal", p |-> p, variant |-> variant, message |-> message]
       /\ UNCHANGED <<heap, exited, httpVars>>

\* os.Exit(1)
OsExit ==
  /\ InFatal
  /\ ~exited
  /\ exited' = TRUE
  /\ lastOp' = [op |-> "exit", p |-> lastOp.p, code |-> ExitStatus]
  /\ UNCHANGED <<heap, sinks, httpVars>>

FatalNext == EarlierCall \/ FatalCall \/ OsExit

SpecFatal == InitLogger /\ [][FatalNext]_vars

(***************************************************************************)
(* The JSON text of a line and its decoding.  jsonMarshal above gives the  *)
(* members json.Marshal writes; here each member's value becomes a JSON    *)
(* token, and json.Unmarshal reads the tokens back into a LogEntry.  A     *)
(* value held in the interface-typed Fields map carries its Go type:       *)
(* string or int when stored, and string or float64 when decoded, since    *)
(* Unmarshal stores every JSON number it reads into an interface value as  *)
(* a float64.  Marshal replaces the bytes of a string that are not valid   *)
(* UTF-8 by U+FFFD.                                                        *)
(***************************************************************************)
GoString(s) == [kind |-> "string", v |-> s]
GoInt(n) == [kind |-> "int", v |-> n]
GoFloat64(n) == [kind |-> "float64", v |-> n]

\* a string with a byte that is not valid UTF-8, and what Marshal makes of it
InvalidUTF8 == "caf\\xE9"
Coerced == "caf\\uFFFD"

ValidUTF8(s) == s # InvalidUTF8

toValidUTF8(s) == IF ValidUTF8(s) THEN s ELSE Coerced

jsonString(s) == [json |-> "string", v |-> toValidUTF8(s)]

\* the number as a quoted string, as the struct tag option "string" would
\* write it
jsonValueQuoted(v) == [json |-> "string", v |-> v.v]

\* the token of a value of the Fields map
jsonValue(v) ==
  IF v.kind = "string" THEN jsonString(v.v) ELSE [json |-> "number", v |-> v.v]

\* the text of the object json.Marshal builds from a LogEntry
jsonText(obj) ==
  [k \in DOMAIN obj |->
     IF k = "fields"
     THEN [json |-> "object", v |-> [f \in DOMAIN obj[k] |-> jsonValue(obj[k][f])]]
     ELSE jsonString(obj[k])]

\* a token read into an interface value
decodeInterface(tok) ==
  IF tok.json = "string" THEN GoString(tok.v) ELSE GoFloat64(tok.v)

\* json.Unmarshal(text, &entry): members that are absent keep their zero
\* value
jsonUnmarshal(text) ==
  LET str(k) == IF k \in DOMAIN text THEN text[k].v ELSE ""
  IN [level |-> str("level"),
      message |-> str("message"),
      service |-> str("service"),
      component |-> str("component"),
      trace_id |-> str("trace_id"),
      user_id |-> str("user_id"),
      request_id |-> str("request_id"),
      fields |-> IF "fields" \in DOMAIN text
                 THEN [f \in DOMAIN text["fields"].v |->
                         decodeInterface(text["fields"].v[f])]
                 ELSE NoFields]

\* a value json cannot encode
GoChan == [kind |-> "chan", v |-> "chan int"]

\* the error json.Marshal returns for a record with these fields, "" for nil
MarshalError(fields) ==
  IF \E k \in DOMAIN fields : fields[k].kind = "chan"
  THEN "json: unsupported type: chan int"
  ELSE ""

RoundTripMessages == {"test message", "", InvalidUTF8}

RoundTripFields ==
  {[k \in {"key1"} |-> GoString("value1")],
   [k \in {"count"} |-> GoInt(42)],
   [k \in {"key1", "count"} |-> IF k = "key1" THEN GoString(InvalidUTF8) ELSE GoInt(0 - 1)]}

InitRoundTrip ==
  /\ requestCounts = emptyCounts
  /\ lastReset = 0
  /\ now = 0
  /\ last = Idle
  /\ procs = [p \in Procs |-> IdleProc]
  /\ observed = emptyCounts
  /\ deniedBefore = {}
  /\ crashed = FALSE
  /\ \E config \in Configs :
       /\ config.Format = "JSON"
       /\ config.Level \in {"DEBUG", "INFO"}
       /\ heap = New(config).heap
  /\ logger = Deref(heap, 1)
  /\ sinks = NoWrites
  /\ lastOp = NoOp
  /\ exited = FALSE

RoundTripWithFields ==
  \E p \in Pointers, fields \in RoundTripFields :
    Derived("WithFields", p, fields, LoggerWithFields(heap, p, fields))

\* Info, and the line it wrote read back with json.Unmarshal
RoundTripInfo ==
  \E p \in Pointers, message \in RoundTripMessages :
    LET l == Deref(heap, p)
        text == jsonText(jsonMarshal(PlainEntry(l, INFO, message)))
    IN /\ CanEmit(p)
       /\ sinks' = log(l, INFO, message, sinks)
       /\ lastOp' = [op |-> "roundtrip", p |-> p,
                     entry |-> PlainEntry(l, INFO, message),
                     text |-> text, decoded |-> jsonUnmarshal(text)]
       /\ UNCHANGED <<heap, exited, httpVars>>

RoundTripNext == RoundTripWithFields \/ RoundTripInfo

SpecRoundTrip == InitRoundTrip /\ [][RoundTripNext]_vars

(***************************************************************************)
(* The response wrapper call by call.  The writer under the wrapper takes  *)
(* m of the n bytes of a Write and returns (m, err), err being set when    *)
(* m < n: a recorder takes all, a connection that breaks takes fewer.      *)
(* lastOp holds the execution s, the call made with what the writer under  *)
(* the wrapper returned (under) and what the wrapper returned (ret), and   *)
(* what an observer of the calls has seen: the number of calls, the number *)
(* of WriteHeader calls, whether a body write was made, the code of the    *)
(* last WriteHeader call before it, and the sum of the counts the writer   *)
(* under the wrapper returned.                                             *)
(***************************************************************************)
RawWriteResult(w, n, m) ==
  [w |-> [RawWriteHeader(w, StatusOK) EXCEPT !.body = @ + m], n |-> m, err |-> m < n]

WriteResultRequested(s, n, m) ==
  LET res == RawWriteResult(s.w, n, m)
  IN [s |-> [s EXCEPT !.w = res.w, !.rw.written = @ + n], n |-> res.n, err |-> res.err]

\* rw.Write(data) with len(data) = n
WriteResult(s, n, m) ==
  LET res == RawWriteResult(s.w, n, m)
  IN [s |-> [s EXCEPT !.w = res.w, !.rw.written = @ + res.n], n |-> res.n, err |-> res.err]

WrapperRequest ==
  Request("GET", "/test", "/test", "test-agent", "10.0.0.1:1000", "existing-id", "", << >>)

WrapperCodes == {201, 404, 500}

InWrapper == lastOp.op \in {"new", "WriteHeader", "Write"}

\* the Logging stage has wrapped the writer and calls next
WrapperNew ==
  /\ lastOp.op = "none"
  /\ lastOp' = [op |-> "new", calls |-> 0, headers |-> 0, body |-> FALSE,
                headerBeforeBody |-> StatusOK, returned |-> 0,
                under |-> [n |-> 0, err |-> FALSE], ret |-> [n |-> 0, err |-> FALSE],
                s |-> [NewExec(emptyCounts, 0, 0, "") EXCEPT
                         !.rw = newResponseWriter, !.wrapped = TRUE]]
  /\ UNCHANGED <<heap, sinks, exited, httpVars>>

CallWriteHeader ==
  \E code \in WrapperCodes :
    /\ InWrapper
    /\ lastOp.calls < MaxCalls
    /\ lastOp' = [lastOp EXCEPT !.op = "WriteHeader", !.calls = @ + 1,
                                !.headers = @ + 1,
                                !.headerBeforeBody = IF lastOp.body THEN @ ELSE code,
                                !.s = WriteHeader(lastOp.s, code)]
    /\ UNCHANGED <<heap, sinks, exited, httpVars>>

CallWrite ==
  \E n \in {2}, m \in 0..2 :
    LET res == WriteResult(lastOp.s, n, m)
        under == RawWriteResult(lastOp.s.w, n, m)
    IN /\ InWrapper
       /\ lastOp.calls < MaxCalls
       /\ lastOp' = [lastOp EXCEPT !.op = "Write", !.calls = @ + 1, !.body = TRUE,
                                   !.returned = @ + under.n,
                                   !.under = [n |-> under.n, err |-> under.err],
                                   !.ret = [n |-> res.n, err |-> res.err],
                                   !.s = res.s]
       /\ UNCHANGED <<heap, sinks, exited, httpVars>>

\* next has returned: the Logging stage writes its records
WrapperCompleted ==
  /\ InWrapper
  /\ lastOp' = [lastOp EXCEPT !.op = "completed",
                              !.s = HandlerCompleted([logger |-> logger], WrapperRequest,
                                      WithRequestID(Background, "existing-id"),
                                      "existing-id", 0, lastOp.s)]
  /\ UNCHANGED <<heap, sinks, exited, httpVars>>

WrapperNext == WrapperNew \/ CallWriteHeader \/ CallWrite \/ WrapperCompleted

SpecWrapper == Init /\ [][WrapperNext]_vars

(***************************************************************************)
(* Logging calls that meet a failure: a field json cannot encode, a sink   *)
(* whose Write returns an error.                                           *)
(***************************************************************************)
FailFields ==
  {[k \in {"key1"} |-> GoString("value1")], [k \in {"ch"} |-> GoChan]}

FailWithFields ==
  \E p \in Pointers, fields \in FailFields :
    Derived("WithFields", p, fields, LoggerWithFields(heap, p, fields))

\* Info or Error on a logger; ok tells whether the sink takes the line
FailCall ==
  \E p \in Pointers, level \in {INFO, ERROR}, ok \in BOOLEAN :
    LET l == Deref(heap, p)
        err == MarshalError(l.fields)
    IN /\ CanEmit(p)
       /\ sinks' = IF levelEnabled(l, level)
                   THEN writeEntryWith(l, PlainEntry(l, level, "test message"),
                                       sinks, err, ok)
                   ELSE sinks
       /\ lastOp' = [op |-> "call", p |-> p, level |-> level, err |-> err, ok |-> ok]
       /\ UNCHANGED <<heap, exited, httpVars>>

FailNext == FailWithFields \/ FailCall

SpecFail == InitLogger /\ [][FailNext]_vars

(***************************************************************************)
(* SetOutput among derivations and emit calls: any logger that exists is   *)
(* given a sink, loggers are derived before and after, and records are     *)
(* emitted through any of them.                                            *)
(***************************************************************************)
\* l.SetOutput(w)
CallSetOutput ==
  \E p \in Pointers, w \in Sinks :
    /\ ~exited
    /\ heap' = SetOutput(heap, p, w)
    /\ lastOp' = [op |-> "SetOutput", p |-> p, w |-> w]
    /\ UNCHANGED <<sinks, exited, httpVars>>

\* derived := l.WithFields(map[string]interface{}{"key1": "value1"})
OutputWithFields ==
  \E p \in Pointers :
    Derived("WithFields", p, [k \in {"key1"} |-> "value1"],
            LoggerWithFields(heap, p, [k \in {"key1"} |-> "value1"]))

\* l.Info("test message")
OutputInfo ==
  \E p \in Pointers :
    /\ CanEmit(p)
    /\ sinks' = log(Deref(heap, p), INFO, "test message", sinks)
    /\ lastOp' = EmitOp(p, INFO, "plain", Background, "test message")
    /\ UNCHANGED <<heap, exited, httpVars>>

InitOutput ==
  /\ InitLogger
  /\ Deref(heap, 1).format = "JSON"
  /\ Deref(heap, 1).level \in {INFO, WARN}

OutputNext == CallSetOutput \/ OutputWithFields \/ OutputInfo

SpecOutput == InitOutput /\ [][OutputNext]_vars

(***************************************************************************)
(* getCaller.  A call stack is the sequence of the frames of the running   *)
(* goroutine, the innermost one last; a frame is the function it runs.     *)
(* runtime.Caller(skip) reports the frame skip levels above its own        *)
(* caller, and fails when the stack is not that deep.  The record is       *)
(* written only when the level passes the logger's threshold (`logger`     *)
(* holds the logger called), and Fatal and Fatalf end the process.         *)
(***************************************************************************)
SkipFrames == 3

Frame(pkg, recv, fn) == [pkg |-> pkg, recv |-> recv, fn |-> fn]

UnknownCaller == Frame("", "", "unknown")

runtimeCaller(stack, skip) ==
  IF skip < Len(stack)
  THEN [ok |-> TRUE, frame |-> stack[Len(stack) - skip]]
  ELSE [ok |-> FALSE]

\* stack: the stack when getCaller calls runtime.Caller, getCaller's frame last
getCaller(stack) ==
  LET c == runtimeCaller(stack, SkipFrames)
  IN IF c.ok THEN c.frame ELSE UnknownCaller

\* the leveled methods of Logger: name, level, and the function they call
LeveledMethods ==
  { [name |-> n[1], level |-> n[2], via |-> n[3]] :
      n \in {<<"Debug", DEBUG, "log">>, <<"Debugf", DEBUG, "log">>,
             <<"DebugContext", DEBUG, "logWithContext">>,
             <<"Info", INFO, "log">>, <<"Infof", INFO, "log">>,
             <<"InfoContext", INFO, "logWithContext">>,
             <<"Warn", WARN, "log">>, <<"Warnf", WARN, "log">>,
             <<"WarnContext", WARN, "logWithContext">>,
             <<"Error", ERROR, "log">>, <<"Errorf", ERROR, "log">>,
             <<"ErrorContext", ERROR, "logWithContext">>,
             <<"Fatal", FATAL, "log">>, <<"Fatalf", FATAL, "log">>} }

Method(name) == CHOOSE m \in LeveledMethods : m.name = name

\* the specialized helpers and the leveled method each ends with
Helpers ==
  {<<"LogHTTPRequest", "Info">>, <<"LogDatabaseOperation", "Debug">>,
   <<"LogBusinessEvent", "Info">>}

\* the package-level functions: each calls the method of its name on the
\* default logger
DefaultFunctions ==
  {"Debug", "Debugf", "Info", "Infof", "Warn", "Warnf", "Error", "Errorf",
   "Fatal", "Fatalf"}

\* functions of the program that log
CallSites ==
  {Frame("main", "", "main"), Frame("handlers", "", "HandleLogIngestion"),
   Frame("database", "", "Connect"), Frame("middleware", "LoggingMiddleware", "Handler")}

\* the stack in getCaller when the frames of `outer` are followed by a call
\* of the leveled method m
StackIn(outer, m) ==
  outer \o <<Frame("logger", "Logger", m.name), Frame("logger", "Logger", m.via),
             Frame("logger", "", "getCaller")>>

\* the leveled method m runs with the frames of `outer` below it; entry is
\* the public function the call site invoked
Logged(site, entry, outer, m) ==
  /\ lastOp' = [op |-> "caller", site |-> site, entry |-> entry,
                written |-> levelEnabled(logger, m.level),
                function |-> IF levelEnabled(logger, m.level)
                             THEN getCaller(StackIn(outer, m))
                             ELSE UnknownCaller]
  /\ exited' = (m.level = FATAL)
  /\ UNCHANGED <<httpVars, heap, sinks>>

\* logger.Info("...") and the like, called on a Logger
CallMethod ==
  \E site \in CallSites, m \in LeveledMethods :
    /\ ~exited
    /\ Logged(site, Frame("logger", "Logger", m.name), <<site>>, m)

\* logger.LogHTTPRequest(...) and the like
CallHelper ==
  \E site \in CallSites, h \in Helpers :
    /\ ~exited
    /\ Logged(site, Frame("logger", "Logger", h[1]),
              <<site, Frame("logger", "Logger", h[1])>>, Method(h[2]))

\* the package-level logger.Info("...") and the like, the default logger set
CallDefault ==
  \E site \in CallSites, f \in DefaultFunctions :
    /\ ~exited
    /\ Logged(site, Frame("logger", "", f), <<site, Frame("logger", "", f)>>,
              Method(f))

CallerNext == CallMethod \/ CallHelper \/ CallDefault

SpecCaller == Init /\ [][CallerNext]_vars

(***************************************************************************)
(* Properties.                                                             *)
(***************************************************************************)
Response == last.s.w
Status == ResponseStatus(last.s.w)
Out == last.s.out
RecordsWith(message) == {i \in 1..Len(Out) : Out[i].message = message}

\* C1: with requests served one at a time, the n-th request a client sends
\* in a window is passed to the inner handler when n <= 100 (so the 50th is)
\* and is answered 429 without being passed inward when n > 100; the first
\* request after a window reset of a client denied before is passed inward.
C1_RateLimitThreshold ==
  last.served =>
    LET n == observed[last.r.remoteAddr]
    IN /\ n <= 100 => last.s.invoked = 1 /\ Status # 429
       /\ n > 100 => last.s.invoked = 0 /\ Status = 429
       /\ (last.r.remoteAddr \in deniedBefore /\ n = 1) => last.s.invoked = 1

\* a client that was denied is served again by its first request after the reset
C1_Witness ==
  /\ last.served
  /\ last.r.remoteAddr \in deniedBefore
  /\ observed[last.r.remoteAddr] = 1
  /\ last.s.invoked = 1
  /\ Status = 200

InCritical(p) == procs[p].pc \in {"resetMap", "resetTime", "load", "store", "decide"}

\* C2: no two goroutines are at the same time between the expiry check and
\* the last threshold read of the rate limiter's handler.
C2_Guarded ==
  \A p, q \in Procs : p # q => ~(InCritical(p) /\ InCritical(q))

\* C3: at every instant the stored count of every client equals the number
\* of its requests the limiter has counted since the last window reset.
C3_CountExact == \A c \in Clients : requestCounts[c] = observed[c]

\* C4: a count decreases only in a reset, which clears all counters and
\* happens only for a request that finds now - windowStart > 60; windowStart
\* changes only then, to now.
C4_ResetExactly ==
  [][/\ (\E c \in Clients : requestCounts'[c] < requestCounts[c]) =>
          /\ now - lastReset > 60
          /\ \A c \in Clients : requestCounts'[c] <= 1
     /\ lastReset' # lastReset => lastReset' = now /\ now - lastReset > 60]_vars

\* C4 for requests served one at a time: a request that finds
\* now - windowStart > 60 clears all counters, sets windowStart to now and gets
\* count 1; any other request leaves windowStart and adds one to its count.
C4_ResetSequential ==
  [][(~last.served /\ last'.served) =>
       LET c == last'.r.remoteAddr
       IN IF now - lastReset > 60
          THEN requestCounts' = [emptyCounts EXCEPT ![c] = 1] /\ lastReset' = now
          ELSE /\ requestCounts' = [requestCounts EXCEPT ![c] = @ + 1]
               /\ lastReset' = lastReset]_vars

(***************************************************************************)
(* The pipeline of main.                                                   *)
(***************************************************************************)
\* the events of a request that runs the given stages to the innermost one
FullTrace(stages) ==
  [i \in 1..(2 * Len(stages) - 1) |->
     IF i % 2 = 1 THEN Event(stages[(i + 1) \div 2], "begin")
     ELSE Event(stages[i \div 2], "next")]

IsPrefix(a, b) == Len(a) <= Len(b) /\ SubSeq(b, 1, Len(a)) = a

LoggedOrder ==
  <<"Recovery", "SecurityHeaders", "CORS", "RateLimit", "HealthCheck",
    "Logging", "Route">>
BypassOrder ==
  <<"Recovery", "SecurityHeaders", "CORS", "RateLimit", "HealthCheck", "Route">>

\* C5: the stages of a request begin in the order Recovery, SecurityHeaders,
\* CORS, RateLimit, HealthCheck (with or without Logging), route handler,
\* each after the stage before it has begun and called next; the stage that
\* does not call next is the last one that runs.
C5_StageOrder ==
  last.served =>
    LET tr == last.s.trace
    IN /\ Len(tr) >= 1
       /\ IsPrefix(tr, FullTrace(LoggedOrder)) \/ IsPrefix(tr, FullTrace(BypassOrder))
       /\ tr[Len(tr)].ev = "begin"

\* a request that runs every stage
C5_Witness ==
  /\ last.served
  /\ last.s.trace = FullTrace(LoggedOrder)

Panicked == last.s.raised # ""
RecoveryRecords == RecordsWith("HTTP handler panic recovered")

\* Recovery did not log and did not touch the response
RecoveryIdle == last.s.out = last.s.inner.out /\ last.s.w = last.s.inner.w

\* C6 as claimed: a panic of the wrapped handler does not leave Recovery,
\* the response has status 500 and exactly one ERROR record 'HTTP handler
\* panic recovered' with the panic's description is written; without a panic
\* Recovery writes no record and nothing to the response.
C6_Recovery ==
  last.served =>
    IF Panicked
    THEN /\ last.s.panic = ""
         /\ Status = 500
         /\ Cardinality(RecoveryRecords) = 1
         /\ \A i \in RecoveryRecords :
              Out[i].level = "ERROR" /\ Out[i].fields.panic = last.s.raised
    ELSE RecoveryIdle

\* C6 amended: the status is 500 when nothing had been written to the
\* response before the panic and the status already sent otherwise; the
\* record is written when the logger's threshold is ERROR or lower, and no
\* record when it is FATAL.
C6_RecoveryAmended ==
  last.served =>
    IF Panicked
    THEN /\ last.s.panic = ""
         /\ Status = (IF last.s.inner.w.status = 0 THEN 500 ELSE last.s.inner.w.status)
         /\ Cardinality(RecoveryRecords) = (IF logger.level <= ERROR THEN 1 ELSE 0)
         /\ \A i \in RecoveryRecords :
              Out[i].level = "ERROR" /\ Out[i].fields.panic = last.s.raised
    ELSE RecoveryIdle

C6_Witness ==
  /\ last.served
  /\ Panicked
  /\ last.s.panic = ""
  /\ Status = 500
  /\ Cardinality(RecoveryRecords) = 1

\* C7: the record Recovery writes for a request the Logging stage handled
\* carries the request id that stage put in the X-Request-ID response header.
C7_RecoveryRequestID ==
  (last.served /\ Panicked /\ Began(last.s, "Logging")) =>
    \A i \in RecoveryRecords :
      /\ Out[i].fields.request_id = ResponseHeader(Response)["X-Request-ID"]
      /\ Out[i].request_id = ResponseHeader(Response)["X-Request-ID"]

HasSecurityHeaders(h) ==
  /\ h["X-Content-Type-Options"] = "nosniff"
  /\ h["X-Frame-Options"] = "DENY"
  /\ h["X-XSS-Protection"] = "1; mode=block"
  /\ h["Strict-Transport-Security"] = "max-age=31536000; includeSubDomains"

\* C8: the response of every request that entered SecurityHeadersMiddleware
\* carries the four security headers, whichever stage produced it.
C8_SecurityHeaders ==
  (last.served /\ Began(last.s, "SecurityHeaders")) =>
    HasSecurityHeaders(ResponseHeader(Response))

\* the response Recovery produces after a panic carries them
C8_Witness ==
  /\ last.served
  /\ Panicked
  /\ Status = 500
  /\ HasSecurityHeaders(ResponseHeader(Response))

\* C9: every response of the pipeline carries a non-empty X-Request-ID.
C9_RequestIDAlways ==
  last.served => ResponseHeader(Response)["X-Request-ID"] # ""

\* C10: for a request the Logging stage handles, the X-Request-ID of the
\* response is the inbound one when that is not empty, else the generated,
\* non-empty one, which is also the request id of the scope the inner handler
\* receives; the started and completed records carry the same id.
C10_RequestID ==
  (last.served /\ Began(last.s, "Logging")) =>
    LET inbound == last.r.header["X-Request-ID"]
        id == ResponseHeader(Response)["X-Request-ID"]
    IN /\ id # ""
       /\ inbound # "" => id = inbound
       /\ inbound = "" => id = last.s.uuid
       /\ last.s.invoked = 1 => last.s.seenRequestID = id
       /\ \A i \in RecordsWith("HTTP request started")
                     \cup RecordsWith("HTTP request completed") :
            Out[i].request_id = id /\ Out[i].fields.request_id = id

C10_Witness ==
  /\ last.served
  /\ last.r.header["X-Request-ID"] = ""
  /\ ResponseHeader(Response)["X-Request-ID"] = last.s.uuid
  /\ last.s.seenRequestID = last.s.uuid
  /\ RecordsWith("HTTP request started") # {}
  /\ RecordsWith("HTTP request completed") # {}

(***************************************************************************)
(* HealthCheckMiddleware and the Logging stage.                            *)
(***************************************************************************)
Started == RecordsWith("HTTP request started")
Completed == RecordsWith("HTTP request completed")
ReservedPath == last.r.path = "/health" \/ last.r.path = "/healthz"

\* C11 as claimed: a request to /health or /healthz reaches the inner handler
\* and leaves no started and no completed record; a request to any other
\* path goes through the Logging stage and leaves one of each.
C11_HealthBypass ==
  last.served =>
    IF ReservedPath
    THEN /\ last.s.invoked = 1
         /\ ~Began(last.s, "Logging")
         /\ Started = {} /\ Completed = {}
    ELSE /\ Began(last.s, "Logging")
         /\ Cardinality(Started) = 1
         /\ Cardinality(Completed) = 1

\* C11 amended: for any other path the started record is written when the
\* logger's threshold is INFO or lower, and the completed record when in
\* addition the inner handler returns; otherwise they are not written.
C11_HealthBypassAmended ==
  last.served =>
    IF ReservedPath
    THEN /\ last.s.invoked = 1
         /\ ~Began(last.s, "Logging")
         /\ Started = {} /\ Completed = {}
    ELSE /\ Began(last.s, "Logging")
         /\ last.s.invoked = 1
         /\ Cardinality(Started) = (IF logger.level <= INFO THEN 1 ELSE 0)
         /\ Cardinality(Completed) =
              (IF logger.level <= INFO /\ ~Panicked THEN 1 ELSE 0)

\* a near miss of a reserved path is logged
C11_Witness ==
  /\ last.served
  /\ last.r.path = "/health/"
  /\ Cardinality(Started) = 1
  /\ Cardinality(Completed) = 1

ServerErrors == RecordsWith("HTTP request failed with server error")
ClientErrors == RecordsWith("HTTP request failed with client error")

\* C12 as claimed: a request the Logging stage handled and whose inner
\* handler returned leaves exactly one INFO completed record, exactly one
\* ERROR server-error record when the status is 500 or more, exactly one WARN
\* client-error record when it is 400 to 499, and neither below 400.
C12_StatusRecords ==
  (last.served /\ Began(last.s, "Logging") /\ ~Panicked) =>
    /\ Cardinality(Completed) = 1
    /\ \A i \in Completed : Out[i].level = "INFO"
    /\ Cardinality(ServerErrors) = (IF Status >= 500 THEN 1 ELSE 0)
    /\ \A i \in ServerErrors : Out[i].level = "ERROR"
    /\ Cardinality(ClientErrors) = (IF Status >= 400 /\ Status <= 499 THEN 1 ELSE 0)
    /\ \A i \in ClientErrors : Out[i].level = "WARN"

\* C12 amended: each of the three records is written when the logger's
\* threshold is at most the record's level, and not written otherwise.
C12_StatusRecordsAmended ==
  (last.served /\ Began(last.s, "Logging") /\ ~Panicked) =>
    /\ Cardinality(Completed) = (IF logger.level <= INFO THEN 1 ELSE 0)
    /\ \A i \in Completed : Out[i].level = "INFO"
    /\ Cardinality(ServerErrors) =
         (IF Status >= 500 /\ logger.level <= ERROR THEN 1 ELSE 0)
    /\ \A i \in ServerErrors : Out[i].level = "ERROR"
    /\ Cardinality(ClientErrors) =
         (IF Status >= 400 /\ Status <= 499 /\ logger.level <= WARN THEN 1 ELSE 0)
    /\ \A i \in ClientErrors : Out[i].level = "WARN"
    /\ ServerErrors = {} \/ ClientErrors = {}

\* a 404 leaves the completed record and the client-error record
C12_Witness ==
  /\ last.served
  /\ Status = 404
  /\ Cardinality(Completed) = 1
  /\ Cardinality(ClientErrors) = 1
  /\ ServerErrors = {}

(***************************************************************************)
(* CORSMiddleware in the pipeline.                                         *)
(***************************************************************************)
HasCORSHeaders(h) ==
  /\ h["Access-Control-Allow-Origin"] = "*"
  /\ h["Access-Control-Allow-Methods"] = "GET, POST, PUT, DELETE, OPTIONS"
  /\ h["Access-Control-Allow-Headers"] = "Content-Type, Authorization, X-Request-ID"

LoggingMessages ==
  {"HTTP request started", "HTTP request completed", "Slow HTTP request detected",
   "HTTP request failed with server error", "HTTP request failed with client error"}

\* the calls of next the stage made for the request
Delegations(stage) ==
  {i \in 1..Len(last.s.trace) : last.s.trace[i] = Event(stage, "next")}

\* C13: every response of a request that reached CORSMiddleware carries the
\* three CORS headers; an OPTIONS request is answered 200 with nothing run
\* inward (no rate limiter, no Logging-stage record, no route handler) and
\* leaves the rate limiter's counts as they were; a request with another
\* method is delegated inward exactly once.
C13_CORS ==
  /\ []((last.served /\ Began(last.s, "CORS")) =>
          /\ HasCORSHeaders(ResponseHeader(Response))
          /\ IF last.r.method = "OPTIONS"
             THEN /\ Status = 200
                  /\ Delegations("CORS") = {}
                  /\ ~Began(last.s, "RateLimit")
                  /\ ~Began(last.s, "Logging")
                  /\ last.s.invoked = 0
                  /\ \A i \in 1..Len(Out) : Out[i].message \notin LoggingMessages
             ELSE Cardinality(Delegations("CORS")) = 1)
  /\ [][(~last.served /\ last'.served /\ last'.r.method = "OPTIONS") =>
          requestCounts' = requestCounts /\ lastReset' = lastReset]_vars

\* a preflight answered while the client already has requests counted
C13_Witness ==
  /\ last.served
  /\ last.r.method = "OPTIONS"
  /\ Status = 200
  /\ HasCORSHeaders(ResponseHeader(Response))
  /\ requestCounts[last.r.remoteAddr] = 2
  /\ last.s.invoked = 0

(***************************************************************************)
(* The logger.                                                             *)
(***************************************************************************)
SinkOf(p) == sinks[heap.loggers[p].output]
Emitted == lastOp.op = "emit"

\* C14: an emit call at a level below the logger's threshold writes nothing
\* and a call at the threshold or above writes exactly one record, of the
\* call's level and message, through the plain, the formatted and the
\* context variant alike.
C14_LevelFilter ==
  [][lastOp'.op = "emit" =>
       LET p == lastOp'.p
           before == sinks[heap.loggers[p].output]
           after == sinks'[heap.loggers[p].output]
       IN IF lastOp'.level < heap.loggers[p].level
          THEN sinks' = sinks
          ELSE /\ Len(after) = Len(before) + 1
               /\ SubSeq(after, 1, Len(before)) = before
               /\ \A k \in Sinks \ {heap.loggers[p].output} : sinks'[k] = sinks[k]
               /\ after[Len(after)].format = heap.loggers[p].format
               /\ after[Len(after)].format = "JSON" =>
                    /\ after[Len(after)].data["level"] = LevelString(lastOp'.level)
                    /\ after[Len(after)].data["message"] = lastOp'.message
               /\ after[Len(after)].format = "TEXT" =>
                    /\ after[Len(after)].data[1][1] = LevelString(lastOp'.level)
                    /\ after[Len(after)].data[1][4] = lastOp'.message]_vars

\* a call below the threshold after one at the threshold: one line
C14_Witness ==
  /\ Emitted
  /\ lastOp.variant = "formatted"
  /\ lastOp.level < heap.loggers[lastOp.p].level
  /\ Len(SinkOf(lastOp.p)) = 1

\* the field set of the logger p points to
FieldsOf(h, p) == h.maps[h.loggers[p].fields]

\* C15: WithFields and WithField leave the receiver's field set as it was,
\* and the field set of the logger they return is the union of the
\* receiver's fields and the argument, the argument's value winning.
C15_WithFields ==
  [][lastOp'.op \in {"WithFields", "WithField"} =>
       LET p == lastOp'.p
           m == lastOp'.arg
           base == FieldsOf(heap, p)
           derived == FieldsOf(heap', lastOp'.ptr)
       IN /\ lastOp'.ptr # p
          /\ FieldsOf(heap', p) = base
          /\ DOMAIN derived = DOMAIN base \cup DOMAIN m
          /\ \A k \in DOMAIN m : derived[k] = m[k]
          /\ \A k \in DOMAIN base \ DOMAIN m : derived[k] = base[k]]_vars

\* a derivation that overrides a key the receiver has
C15_Witness ==
  /\ lastOp.op = "WithFields"
  /\ "key1" \in DOMAIN FieldsOf(heap, lastOp.p)
  /\ FieldsOf(heap, lastOp.p)["key1"] = "value1"
  /\ FieldsOf(heap, lastOp.ptr)["key1"] = "value2"
  /\ FieldsOf(heap, lastOp.ptr)["key2"] = "value2"

\* C16: no call changes the field set (or any other member) of a logger
\* that exists, whichever logger the call was made on.
C16_FieldsFrozen ==
  [][\A p \in 1..Len(heap.loggers) :
       /\ p <= Len(heap'.loggers)
       /\ FieldsOf(heap', p) = FieldsOf(heap, p)]_vars

\* fields added to a logger whose map WithComponent shares with its receiver
C16_Witness ==
  /\ Len(heap.loggers) = 3
  /\ heap.loggers[2].fields = heap.loggers[1].fields
  /\ lastOp.op = "WithFields"
  /\ lastOp.p = 2
  /\ lastOp.ptr = 3
  /\ FieldsOf(heap, 3) # FieldsOf(heap, 2)

\* C17: WithComponent returns a new logger with the component given and the
\* receiver's level, service, format, sink and fields, and leaves the
\* receiver as it was.
C17_WithComponent ==
  [][lastOp'.op = "WithComponent" =>
       LET p == lastOp'.p
           old == heap.loggers[p]
           new == heap'.loggers[lastOp'.ptr]
       IN /\ lastOp'.ptr # p
          /\ new.component = lastOp'.arg
          /\ new.level = old.level
          /\ new.service = old.service
          /\ new.format = old.format
          /\ new.output = old.output
          /\ FieldsOf(heap', lastOp'.ptr) = FieldsOf(heap, p)
          /\ heap'.loggers[p] = old]_vars

\* a component set on a logger that carries fields
C17_Witness ==
  /\ lastOp.op = "WithComponent"
  /\ heap.loggers[lastOp.ptr].component = "new-component"
  /\ heap.loggers[lastOp.p].component = "test-component"
  /\ FieldsOf(heap, lastOp.ptr) # NoFields

\* the lines the tasks' records make, whole
TaskLines ==
  {Line(Deref(heap, 1), PlainEntry(Deref(heap, 1), INFO, TaskMessage(t, i))) :
     t \in Tasks, i \in 1..RecordsPerTask}

TasksDone == \A t \in DOMAIN procs : procs[t].pc = "idle" /\ procs[t].left = 0

\* C18: once every task has emitted its records the sink holds exactly
\* NumTasks * RecordsPerTask lines, each the whole line of one record and
\* every record's line exactly once.
C18_ConcurrentLines ==
  (DOMAIN procs = Tasks /\ TasksDone) =>
    LET out == sinks[Deref(heap, 1).output]
    IN /\ Len(out) = NumTasks * RecordsPerTask
       /\ \A i \in 1..Len(out) : out[i] \in TaskLines
       /\ \A ln \in TaskLines : Cardinality({i \in 1..Len(out) : out[i] = ln}) = 1

\* C19: an emit call at or above the logger's threshold makes exactly one
\* write, of one newline-terminated line, placed after every line already
\* in the logger's sink (so lines of successive calls are in call order);
\* a call below the threshold writes nothing; no other sink is touched.
C19_OneWriteInOrder ==
  [][lastOp'.op = "emit" =>
       LET l == heap.loggers[lastOp'.p]
           before == sinks[l.output]
           after == sinks'[l.output]
       IN /\ \A k \in DOMAIN sinks \ {l.output} : sinks'[k] = sinks[k]
          /\ DOMAIN sinks' = DOMAIN sinks
          /\ IF lastOp'.level >= l.level
             THEN /\ Len(after) = Len(before) + 1
                  /\ \A i \in 1..Len(before) : after[i] = before[i]
                  /\ after[Len(after)].newline
                  /\ after[Len(after)].format = l.format
             ELSE after = before]_vars

\* two calls one after the other whose lines differ, the later call's line
\* second
C19_Witness ==
  /\ Emitted
  /\ Len(SinkOf(lastOp.p)) = 2
  /\ SinkOf(lastOp.p)[1].format = "JSON"
  /\ SinkOf(lastOp.p)[1].data["level"] = "WARN"
  /\ SinkOf(lastOp.p)[2].data["level"] = "ERROR"
  /\ lastOp.level = ERROR
  /\ SinkOf(lastOp.p)[2].newline

\* the identifiers a written line carries, as a function from the record's
\* member names to values
IdsOfLine(line) ==
  IF line.format = "JSON"
  THEN [k \in DOMAIN line.data \cap {"trace_id", "user_id", "request_id"} |->
          line.data[k]]
  ELSE LET tagged(tag) == {i \in 2..Len(line.data) : line.data[i][1] = tag}
           name == [trace_id |-> "trace", user_id |-> "user", request_id |-> "request"]
       IN [k \in {n \in DOMAIN name : tagged(name[n]) # {}} |->
             line.data[CHOOSE i \in tagged(name[k]) : TRUE][2]]

\* the identifiers set to a non-empty string in a scope
IdsOfScope(ctx) ==
  LET v == [trace_id |-> GetTraceID(ctx), user_id |-> GetUserID(ctx),
            request_id |-> GetRequestID(ctx)]
  IN [k \in {n \in DOMAIN v : v[n] # ""} |-> v[k]]

\* C20: the line a scope-aware method writes carries exactly the
\* identifiers that are non-empty in the scope passed, with the scope's
\* values; the line a method without scope writes carries none.
C20_ScopeIds ==
  [][(lastOp'.op = "emit" /\ sinks' # sinks) =>
       LET out == sinks'[heap.loggers[lastOp'.p].output]
           ids == IdsOfLine(out[Len(out)])
       IN IF lastOp'.variant = "context"
          THEN ids = IdsOfScope(lastOp'.ctx)
          ELSE DOMAIN ids = {}]_vars

\* a scope with a trace id and an empty user id: the line has the first only
C20_Witness ==
  /\ Emitted
  /\ lastOp.variant = "context"
  /\ GetTraceID(lastOp.ctx) = "trace-123"
  /\ "user_id" \in {c[1] : c \in {lastOp.ctx[i] : i \in 1..Len(lastOp.ctx)}}
  /\ GetUserID(lastOp.ctx) = ""
  /\ Len(SinkOf(lastOp.p)) > 0
  /\ lastOp.level >= heap.loggers[lastOp.p].level
  /\ DOMAIN IdsOfLine(SinkOf(lastOp.p)[Len(SinkOf(lastOp.p))]) = {"trace_id"}

\* the keys a scope has a value for
KeysSet(ctx) == {ctx[i][1] : i \in 1..Len(ctx)}

\* C21: the scope a set returns reads the value set for the identifier set
\* and what the original scope read for the other two; the original scope
\* reads what it read before the call; an identifier no set was made for
\* reads as the empty string.
C21_ScopeSetGet ==
  /\ lastOp.op = "set" =>
       /\ ReadScope(lastOp.ctx)[lastOp.kind] = lastOp.value
       /\ \A k \in {"trace", "user", "request"} \ {lastOp.kind} :
            ReadScope(lastOp.ctx)[k] = lastOp.before[k]
       /\ ReadScope(lastOp.from) = lastOp.before
  /\ lastOp.op \in {"set", "scope"} =>
       /\ "trace_id" \notin KeysSet(lastOp.ctx) => GetTraceID(lastOp.ctx) = ""
       /\ "user_id" \notin KeysSet(lastOp.ctx) => GetUserID(lastOp.ctx) = ""
       /\ "request_id" \notin KeysSet(lastOp.ctx) => GetRequestID(lastOp.ctx) = ""

\* an identifier set a second time on a scope that has the other two
C21_Witness ==
  /\ lastOp.op = "set"
  /\ lastOp.kind = "user"
  /\ lastOp.value = "id-2"
  /\ lastOp.before.user = "id-1"
  /\ lastOp.before.trace = "id-1"
  /\ GetUserID(lastOp.ctx) = "id-2"
  /\ GetTraceID(lastOp.ctx) = "id-1"
  /\ GetRequestID(lastOp.ctx) = ""

\* the fields member of a written line
LineFields(line) ==
  IF line.format = "JSON" THEN line.data["fields"]
  ELSE line.data[Len(line.data)][2]

\* C22: whatever another request does in between, a record the Logging
\* stage writes for a request carries that request's identifier (in the
\* record and in its fields) and that request's method and path, and no
\* step changes the field set of the middleware's logger.
C22_NoInterference ==
  [][/\ FieldsOf(heap', 1) = FieldsOf(heap, 1)
     /\ (lastOp'.op = "record" /\ sinks' # sinks) =>
          LET me == procs[lastOp'.proc]
              out == sinks'[heap.loggers[1].output]
              line == out[Len(out)]
          IN /\ IdsOfLine(line) = [k \in {"request_id"} |-> me.requestID]
             /\ LineFields(line)["request_id"] = me.requestID
             /\ LineFields(line)["http_method"] = me.r.method
             /\ LineFields(line)["http_path"] = me.r.path]_vars

\* a record of one request written while the other request is between its
\* WithFields call and its emit call, both having written before
C22_Witness ==
  /\ lastOp.op = "record"
  /\ lastOp.proc = "h1"
  /\ lastOp.record = "completed"
  /\ DOMAIN procs = Procs
  /\ procs["h2"].pc = "emit"
  /\ procs["h2"].record = "completed"
  /\ procs["h2"].ptr < procs["h1"].ptr
  /\ procs["h1"].requestID = "uuid-1"
  /\ procs["h2"].requestID = "uuid-2"
  /\ Len(sinks[Stdout]) = 3

\* C23: New returns a logger for every level and format name; the level
\* names DEBUG, INFO, WARN, ERROR, FATAL give the threshold of that name,
\* WARNING gives WARN and any other string INFO; the format names JSON and
\* TEXT give that format and any other string JSON.
C23_ParseDefaults ==
  lastOp.op = "New" =>
    LET l == heap.loggers[lastOp.ptr]
        lv == lastOp.config.Level
        f == lastOp.config.Format
    IN /\ lastOp.ptr \in 1..Len(heap.loggers)
       /\ l.level \in Levels
       /\ lv \in {"DEBUG", "INFO", "WARN", "ERROR", "FATAL"} => LevelString(l.level) = lv
       /\ lv = "WARNING" => l.level = WARN
       /\ lv \notin {"DEBUG", "INFO", "WARN", "WARNING", "ERROR", "FATAL"} => l.level = INFO
       /\ f \in {"JSON", "TEXT"} => l.format = f
       /\ f \notin {"JSON", "TEXT"} => l.format = "JSON"

\* a lower-case level name and a lower-case format name
C23_Witness ==
  /\ lastOp.op = "New"
  /\ lastOp.config.Level = "debug"
  /\ lastOp.config.Format = "text"
  /\ heap.loggers[1].level = INFO
  /\ heap.loggers[1].format = "JSON"

\* C24: the log call of Fatal or Fatalf appends exactly one line, of level
\* FATAL, to the logger's sink whatever the threshold; the process exits,
\* with a status that is not zero, only in a step after that write and
\* with nothing written in between; between the two the caller does
\* nothing else, and after the exit nothing happens.
C24_FatalExits ==
  [][/\ ~exited
     /\ lastOp'.op = "fatal" =>
          LET l == heap.loggers[lastOp'.p]
              before == sinks[l.output]
              after == sinks'[l.output]
          IN /\ Len(after) = Len(before) + 1
             /\ after = Append(before, after[Len(after)])
             /\ IF l.format = "JSON"
                THEN /\ after[Len(after)].data["level"] = "FATAL"
                     /\ after[Len(after)].data["message"] = lastOp'.message
                ELSE /\ after[Len(after)].data[1][1] = "FATAL"
                     /\ after[Len(after)].data[1][4] = lastOp'.message
             /\ ~exited'
     /\ lastOp.op = "fatal" => (exited' /\ sinks' = sinks)
     /\ exited' => (lastOp.op = "fatal" /\ lastOp'.op = "exit" /\ lastOp'.code # 0)]_vars

\* the process has exited after Fatal on a logger whose threshold is FATAL
C24_Witness ==
  /\ exited
  /\ lastOp.op = "exit"
  /\ heap.loggers[lastOp.p].level = FATAL
  /\ heap.loggers[lastOp.p].format = "JSON"
  /\ Len(SinkOf(lastOp.p)) = 1
  /\ SinkOf(lastOp.p)[1].data["level"] = "FATAL"

WrapperRecords(message) ==
  {i \in 1..Len(lastOp.s.out) : lastOp.s.out[i].message = message}

\* C26: while no WriteHeader call has been made the wrapper's status is
\* 200, whatever was written; a 'request completed' record then reports
\* 200 and no client-error or server-error record is written.
C26_DefaultStatus ==
  /\ (InWrapper /\ lastOp.headers = 0) => lastOp.s.rw.statusCode = 200
  /\ (lastOp.op = "completed" /\ lastOp.headers = 0) =>
       /\ lastOp.s.rw.statusCode = 200
       /\ \A i \in WrapperRecords("HTTP request completed") :
            lastOp.s.out[i].fields["http_status_code"] = 200
       /\ logger.level <= INFO => WrapperRecords("HTTP request completed") # {}
       /\ WrapperRecords("HTTP request failed with server error") = {}
       /\ WrapperRecords("HTTP request failed with client error") = {}

\* a request completed after body writes and no WriteHeader call
C26_Witness ==
  /\ lastOp.op = "completed"
  /\ lastOp.headers = 0
  /\ lastOp.calls = 2
  /\ lastOp.s.rw.written = 4
  /\ Cardinality(WrapperRecords("HTTP request completed")) = 1

\* C27: the wrapper's status is the code of the last WriteHeader call made
\* before the first body write, or 200 when there was none, and that is
\* the status a 'request completed' record reports.
C27_LastBeforeBody ==
  /\ InWrapper => lastOp.s.rw.statusCode = lastOp.headerBeforeBody
  /\ lastOp.op = "completed" =>
       \A i \in WrapperRecords("HTTP request completed") :
         lastOp.s.out[i].fields["http_status_code"] = lastOp.headerBeforeBody

\* C28: written is the sum of the counts the writer under the wrapper
\* returned, each Write returns what that writer returned, written never
\* decreases and WriteHeader leaves it as it was.
C28_Written ==
  /\ [](InWrapper => /\ lastOp.s.rw.written = lastOp.returned
                     /\ lastOp.ret = lastOp.under)
  /\ [][(InWrapper /\ lastOp'.op \in {"WriteHeader", "Write"}) =>
          /\ lastOp'.s.rw.written >= lastOp.s.rw.written
          /\ lastOp'.op = "WriteHeader" => lastOp'.s.rw.written = lastOp.s.rw.written
          /\ lastOp'.op = "Write" =>
               lastOp'.s.rw.written = lastOp.s.rw.written + lastOp'.under.n]_vars

\* a whole write, a failed write and a partial write
C28_Witness ==
  /\ lastOp.op = "Write"
  /\ lastOp.calls = 3
  /\ lastOp.headers = 0
  /\ lastOp.under = [n |-> 1, err |-> TRUE]
  /\ lastOp.ret = [n |-> 1, err |-> TRUE]
  /\ lastOp.s.rw.written = 3
  /\ lastOp.s.w.body = 3

\* C29: a logging call at or above the threshold leaves the loggers as
\* they were and the process running, whatever fails; when the record
\* cannot be encoded as JSON and the sink takes the line, exactly one line
\* is written and it is the fallback line naming the failure; when the
\* sink's write fails nothing else happens.
C29_FailuresSwallowed ==
  [][(lastOp'.op = "call" /\ lastOp'.level >= heap.loggers[lastOp'.p].level) =>
       LET l == heap.loggers[lastOp'.p]
           before == sinks[l.output]
           after == sinks'[l.output]
       IN /\ heap' = heap
          /\ ~exited'
          /\ lastOp'.ok =>
               /\ Len(after) = Len(before) + 1
               /\ SubSeq(after, 1, Len(before)) = before
               /\ after[Len(after)].newline
          /\ (lastOp'.ok /\ lastOp'.err # "" /\ l.format = "JSON") =>
               /\ after[Len(after)].data["level"] = "ERROR"
               /\ after[Len(after)].data["message"] =
                    "Failed to marshal log entry: " \o lastOp'.err
               /\ "fields" \notin DOMAIN after[Len(after)].data
          /\ ~lastOp'.ok => sinks' = sinks]_vars

\* a record with a field json cannot encode, written as the fallback line
C29_Witness ==
  /\ lastOp.op = "call"
  /\ lastOp.ok
  /\ lastOp.err # ""
  /\ heap.loggers[lastOp.p].format = "JSON"
  /\ Len(SinkOf(lastOp.p)) = 1
  /\ SinkOf(lastOp.p)[1].data["level"] = "ERROR"
  /\ ~exited

HighRate == RecordsWith("High request rate detected")
Exceeded == RecordsWith("Rate limit exceeded")

\* C30: a request that makes its client's count c leaves no limiter record
\* and is delegated when c <= 50, leaves exactly one INFO 'High request
\* rate detected' record and is delegated when 51 <= c <= 100, and leaves
\* exactly one WARN 'Rate limit exceeded' record, no 'High request rate
\* detected' record, and is not delegated when c > 100.
C30_LimiterRecords ==
  last.served =>
    LET c == last.s.requestCounts[last.r.remoteAddr]
    IN /\ c <= 50 => (HighRate = {} /\ Exceeded = {} /\ last.s.invoked = 1)
       /\ (51 <= c /\ c <= 100) =>
            /\ Cardinality(HighRate) = 1
            /\ \A i \in HighRate : Out[i].level = "INFO"
            /\ Exceeded = {}
            /\ last.s.invoked = 1
       /\ c > 100 =>
            /\ Cardinality(Exceeded) = 1
            /\ \A i \in Exceeded : Out[i].level = "WARN"
            /\ HighRate = {}
            /\ last.s.invoked = 0

\* C30, amended: as C30, but the 'High request rate detected' record is
\* written only if the logger's threshold is INFO or lower and the 'Rate
\* limit exceeded' record only if it is WARN or lower; with a higher
\* threshold the record is not written and the request is delegated or
\* denied all the same.
C30_LimiterRecordsAmended ==
  last.served =>
    LET c == last.s.requestCounts[last.r.remoteAddr]
    IN /\ c = observed[last.r.remoteAddr]
       /\ c <= 50 => (HighRate = {} /\ Exceeded = {} /\ last.s.invoked = 1)
       /\ (51 <= c /\ c <= 100) =>
            /\ Cardinality(HighRate) = (IF logger.level <= INFO THEN 1 ELSE 0)
            /\ \A i \in HighRate : Out[i].level = "INFO"
            /\ Exceeded = {}
            /\ last.s.invoked = 1
       /\ c > 100 =>
            /\ Cardinality(Exceeded) = (IF logger.level <= WARN THEN 1 ELSE 0)
            /\ \A i \in Exceeded : Out[i].level = "WARN"
            /\ HighRate = {}
            /\ last.s.invoked = 0
            /\ Status = 429

\* the 51st request of a client: the first with a record, and delegated
C30_Witness ==
  /\ last.served
  /\ last.s.requestCounts[last.r.remoteAddr] = 51
  /\ logger.level <= INFO
  /\ Cardinality(HighRate) = 1
  /\ Out[1].fields["request_count"] = 51
  /\ last.s.invoked = 1


(***************************************************************************)
(* The Logging stage around handlers that take time or panic.              *)
(***************************************************************************)
SlowRecords == RecordsWith("Slow HTTP request detected")
StatusRecords == ServerErrors \cup ClientErrors

\* C31: of the records the Logging stage writes for one request, the started
\* record is in the sink when the inner handler is invoked, the completed
\* record is written after the inner handler has returned, the slow-request
\* record after the completed record, and the client-error or server-error
\* record after both, as the last record.
C31_EventOrder ==
  (last.served /\ Began(last.s, "Logging")) =>
    /\ last.s.invoked = 1
    /\ last.s.seenRecords <= last.s.leftRecords
    /\ \A i \in Started : i <= last.s.seenRecords
    /\ \A i \in Completed : i > last.s.leftRecords /\ ~Panicked
    /\ \A i \in Completed, j \in SlowRecords : i < j
    /\ \A i \in Completed \cup SlowRecords, j \in StatusRecords : i < j
    /\ \A j \in StatusRecords : j = Len(Out)

\* a slow request answered 500 leaves the four records in this order
C31_Witness ==
  /\ last.served
  /\ Status = 500
  /\ last.s.seenRecords = 1
  /\ Len(Out) = 4
  /\ Started = {1} /\ Completed = {2} /\ SlowRecords = {3} /\ ServerErrors = {4}

\* the seconds the inner handler of the last request slept: the time between
\* the two readings of the clock in Handler
Elapsed == last.r.ops[1][2]

\* C32 as claimed: a request whose inner handler returned leaves exactly one
\* WARN slow-request record when it took more than 5 seconds and none when
\* it took 5 seconds or less, whatever its status; a slow request answered
\* 500 leaves the completed, the slow-request and the server-error record.
C32_SlowRecord ==
  (last.served /\ Began(last.s, "Logging") /\ ~Panicked) =>
    /\ Cardinality(SlowRecords) = (IF Elapsed > 5 THEN 1 ELSE 0)
    /\ \A i \in SlowRecords : Out[i].level = "WARN"
    /\ (Elapsed > 5 /\ Status = 500) =>
         /\ Cardinality(Completed) = 1
         /\ Cardinality(ServerErrors) = 1

\* C32 amended: the slow-request record is written when the request took
\* more than 5 seconds and the logger's threshold is WARN or lower, whatever
\* the status, and not otherwise; a slow request answered 500 leaves the
\* completed record at threshold INFO or lower, the slow-request record at
\* WARN or lower and the server-error record at ERROR or lower.
C32_SlowRecordAmended ==
  (last.served /\ Began(last.s, "Logging") /\ ~Panicked) =>
    /\ Cardinality(SlowRecords) =
         (IF Elapsed > 5 /\ logger.level <= WARN THEN 1 ELSE 0)
    /\ \A i \in SlowRecords :
         /\ Out[i].level = "WARN"
         /\ Out[i].fields["duration_ms"] = Elapsed * 1000
    /\ (Elapsed > 5 /\ Status = 500) =>
         /\ Cardinality(Completed) = (IF logger.level <= INFO THEN 1 ELSE 0)
         /\ Cardinality(ServerErrors) = (IF logger.level <= ERROR THEN 1 ELSE 0)

\* a request of 6 seconds answered 500 leaves the three records
C32_Witness ==
  /\ last.served
  /\ Elapsed = 6
  /\ Status = 500
  /\ Cardinality(Completed) = 1
  /\ Cardinality(SlowRecords) = 1
  /\ Cardinality(ServerErrors) = 1

\* C33 as claimed: a request whose inner handler panics inside the Logging
\* stage leaves the started record and no completed, slow-request or
\* error-status record; a completed record is there only if the handler
\* returned.
C33_PanicNoCompleted ==
  (last.served /\ Began(last.s, "Logging")) =>
    /\ Panicked =>
         /\ Cardinality(Started) = 1
         /\ Completed = {} /\ SlowRecords = {} /\ StatusRecords = {}
    /\ Completed # {} => ~Panicked

\* C33 amended: the started record of such a request is written when the
\* logger's threshold is INFO or lower and not otherwise; the rest as claimed,
\* the completed record carrying the request id of the started record.
C33_PanicNoCompletedAmended ==
  (last.served /\ Began(last.s, "Logging")) =>
    /\ Panicked =>
         /\ Cardinality(Started) = (IF logger.level <= INFO THEN 1 ELSE 0)
         /\ Completed = {} /\ SlowRecords = {} /\ StatusRecords = {}
    /\ Completed # {} => ~Panicked
    /\ \A i \in Started, j \in Completed :
         i < j /\ Out[i].request_id = Out[j].request_id

\* a handler that panics after 6 seconds leaves the started record alone
C33_Witness ==
  /\ last.served
  /\ Panicked
  /\ Elapsed = 6
  /\ Len(Out) = 1
  /\ Started = {1}

(***************************************************************************)
(* The pipeline after a recovered panic.                                   *)
(***************************************************************************)
\* the request served last, answered or not, panicked and Recovery caught it
RecoveredBefore ==
  /\ "s" \in DOMAIN last
  /\ last.s.raised # ""
  /\ last.s.panic = ""
  /\ Began(last.s, "Recovery")

\* the limiter state (counts, reset) after it has counted, at time t, a
\* request of client c
CountedFrom(counts, reset, t, c) ==
  IF windowExpired(t, reset)
  THEN [requestCounts |-> [emptyCounts EXCEPT ![c] = 1], lastReset |-> t]
  ELSE [requestCounts |-> [counts EXCEPT ![c] = @ + 1], lastReset |-> reset]

Counted(c) == CountedFrom(requestCounts, lastReset, now, c)

\* C34: after a request whose panic Recovery caught, the limiter's counters
\* and window start are the ones the limiter left when it counted that
\* request and stay so until the next request; the next request runs every
\* stage in order, reaches its handler once, is counted like any other
\* request and gets the answer its handler gives; no step changes the
\* middleware's logger.
C34_KeepsServing ==
  [][/\ logger' = logger
     /\ RecoveredBefore =>
          /\ requestCounts = last.s.requestCounts
          /\ lastReset = last.s.lastReset
          /\ requestCounts[last.r.remoteAddr] = observed[last.r.remoteAddr]
          /\ requestCounts[last.r.remoteAddr] >= 1
          /\ (~last.served /\ last'.served) =>
               LET r == last'.r
                   s == last'.s
                   c == Counted(r.remoteAddr)
               IN /\ s.requestCounts = c.requestCounts
                  /\ s.lastReset = c.lastReset
                  /\ s.invoked = 1
                  /\ s.trace = FullTrace(IF isHealthPath(r.path)
                                         THEN BypassOrder ELSE LoggedOrder)
                  /\ r.ops = OkOps => ResponseStatus(s.w) = 200
                  /\ r.ops = NotFoundOps => ResponseStatus(s.w) = 404
          /\ (~last.served /\ ~last'.served) =>
               /\ requestCounts' = requestCounts
               /\ lastReset' = lastReset]_vars

\* a request answered 200 by its handler, served after a request whose
\* panic was turned into a 500 and counted
C34_Witness ==
  /\ last.served
  /\ lastOp.op = "served"
  /\ lastOp.afterPanic
  /\ last.r.ops = OkOps
  /\ Status = 200
  /\ last.s.trace = FullTrace(LoggedOrder)
  /\ requestCounts["10.0.0.1:1000"] = 2
  /\ observed["10.0.0.1:1000"] = 2
  /\ lastReset = 0

(***************************************************************************)
(* Health probes and the rate limiter.                                     *)
(***************************************************************************)
\* the positions of the started and completed records of an execution
RequestRecords(s) ==
  {i \in 1..Len(s.out) :
     s.out[i].message \in {"HTTP request started", "HTTP request completed"}}

\* C35: in main's pipeline a request to /health or /healthz is counted by the
\* rate limiter like any other request of its remote address; when the count
\* then exceeds 100 it is answered 429 and the health handler is not
\* invoked, otherwise the health handler answers it; a request the limiter
\* answers with 429, to whatever path, leaves no started and no completed
\* record.
C35_HealthLimited ==
  [][(~last.served /\ last'.served) =>
       LET r == last'.r
           s == last'.s
           c == Counted(r.remoteAddr)
           denied == c.requestCounts[r.remoteAddr] > 100
       IN /\ Began(s, "RateLimit")
          /\ requestCounts' = c.requestCounts
          /\ lastReset' = c.lastReset
          /\ denied =>
               /\ ResponseStatus(s.w) = 429
               /\ s.invoked = 0
               /\ ~Began(s, "HealthCheck")
               /\ RequestRecords(s) = {}
          /\ (~denied /\ isHealthPath(r.path)) =>
               /\ s.invoked = 1
               /\ ResponseStatus(s.w) = 200
               /\ RequestRecords(s) = {}]_vars

\* the 101st request of the window is a health probe and is answered 429
C35_Witness ==
  /\ last.served
  /\ last.r.path = "/healthz"
  /\ requestCounts[last.r.remoteAddr] = 101
  /\ Status = 429
  /\ last.s.invoked = 0

(***************************************************************************)
(* The rate limiter and its clients.                                       *)
(***************************************************************************)
\* C36: with requests served one at a time, a request of a client changes no
\* other client's count unless it starts a new window, sets its own count to
\* one more than before (to 1 in a new window), and is denied exactly when
\* its own count is then above 100; the client is the request's RemoteAddr.
C36_ClientIsolation ==
  [][(~last.served /\ last'.served) =>
       LET r == last'.r
           s == last'.s
           a == r.remoteAddr
       IN /\ ~windowExpired(now, lastReset) =>
               /\ requestCounts'[a] = requestCounts[a] + 1
               /\ \A b \in Clients \ {a} : requestCounts'[b] = requestCounts[b]
          /\ windowExpired(now, lastReset) => requestCounts'[a] = 1
          /\ (ResponseStatus(s.w) = 429 /\ s.invoked = 0) <=> requestCounts'[a] > 100
          /\ (ResponseStatus(s.w) = 200 /\ s.invoked = 1) <=> requestCounts'[a] <= 100
     ]_vars

\* a client is served while another one, in the same window, is over the limit
C36_Witness ==
  /\ last.served
  /\ last.r.remoteAddr = "10.0.0.2:2000"
  /\ requestCounts["10.0.0.1:1000"] > 100
  /\ requestCounts["10.0.0.2:2000"] = 2
  /\ last.s.invoked = 1
  /\ Status = 200

(***************************************************************************)
(* Handlers made by separate calls of RateLimitMiddleware.                 *)
(***************************************************************************)
\* C37: a call of RateLimitMiddleware makes a handler with an empty counter
\* map and a window starting at the time of the call and leaves the handlers
\* made before as they are; a request served by a handler is counted from
\* the counters and window start the requests that handler served before
\* have left, is denied exactly when that handler's count for its client is
\* then above 100, and leaves the counters and window starts of every other
\* handler as they are.
C37_PerHandlerState ==
  [][/\ Len(requestCounts') > Len(requestCounts) =>
          /\ requestCounts' = Append(requestCounts, emptyCounts)
          /\ lastReset' = Append(lastReset, now)
     /\ (~last.served /\ last'.served) =>
          LET h == last'.h
              a == last'.r.remoteAddr
              c == CountedFrom(requestCounts[h], lastReset[h], now, a)
          IN /\ DOMAIN requestCounts' = DOMAIN requestCounts
             /\ requestCounts'[h] = c.requestCounts
             /\ lastReset'[h] = c.lastReset
             /\ \A g \in DOMAIN requestCounts \ {h} :
                  /\ requestCounts'[g] = requestCounts[g]
                  /\ lastReset'[g] = lastReset[g]
             /\ (ResponseStatus(last'.s.w) = 429) <=> requestCounts'[h][a] > 100
             /\ last'.s.invoked = (IF requestCounts'[h][a] > 100 THEN 0 ELSE 1)
     ]_vars

\* the second handler, made later, serves the first request it is given of
\* a client the first handler has counted more than 100 times and denies
C37_Witness ==
  /\ last.served
  /\ last.h = 2
  /\ Len(requestCounts) = 2
  /\ requestCounts[1]["10.0.0.1:1000"] > 100
  /\ requestCounts[2]["10.0.0.1:1000"] = 1
  /\ lastReset[1] # lastReset[2]
  /\ Status = 200

(***************************************************************************)
(* The records of CORSMiddleware.                                          *)
(***************************************************************************)
CORSReceived == RecordsWith("CORS request received")
CORSPreflight == RecordsWith("CORS preflight request handled")

\* C38 as claimed: a request with an Origin header leaves exactly one DEBUG
\* 'CORS request received' record whatever its method, an OPTIONS request
\* exactly one DEBUG 'CORS preflight request handled' record with or without
\* an Origin header, an OPTIONS request with an Origin header both with the
\* received record first, and any other request neither.
C38_CORSRecords ==
  (last.served /\ Began(last.s, "CORS")) =>
    /\ Cardinality(CORSReceived) = (IF last.r.header["Origin"] # "" THEN 1 ELSE 0)
    /\ Cardinality(CORSPreflight) = (IF last.r.method = "OPTIONS" THEN 1 ELSE 0)
    /\ \A i \in CORSReceived \cup CORSPreflight : Out[i].level = "DEBUG"
    /\ \A i \in CORSReceived, j \in CORSPreflight : i < j

\* C38 amended: the two records are written as claimed when the logger's
\* threshold is DEBUG; with any higher threshold CORSMiddleware writes none.
C38_CORSRecordsAmended ==
  (last.served /\ Began(last.s, "CORS")) =>
    /\ Cardinality(CORSReceived) =
         (IF last.r.header["Origin"] # "" /\ logger.level <= DEBUG THEN 1 ELSE 0)
    /\ Cardinality(CORSPreflight) =
         (IF last.r.method = "OPTIONS" /\ logger.level <= DEBUG THEN 1 ELSE 0)
    /\ \A i \in CORSReceived \cup CORSPreflight : Out[i].level = "DEBUG"
    /\ \A i \in CORSReceived, j \in CORSPreflight : i < j
    /\ \A i \in CORSReceived :
         /\ Out[i].fields["origin"] = last.r.header["Origin"]
         /\ Out[i].fields["http_method"] = last.r.method

\* a preflight with an Origin header leaves both records, received first
C38_Witness ==
  /\ last.served
  /\ last.r.method = "OPTIONS"
  /\ last.r.header["Origin"] = "https://example.com"
  /\ Len(Out) = 2
  /\ CORSReceived = {1}
  /\ CORSPreflight = {2}

(***************************************************************************)
(* Caller metadata.                                                        *)
(***************************************************************************)
\* C39: the function a written record reports is the one that invoked the
\* public logging call (a leveled method, a specialized helper or a
\* package-level function), and so never a function of the logger package.
C39_CallerIsCallSite ==
  (lastOp.op = "caller" /\ lastOp.written) =>
    /\ lastOp.function = lastOp.site
    /\ lastOp.function.pkg # "logger"

\* what holds: a leveled method called directly reports its call site, a
\* helper or a package-level function reports itself
CallerIsThirdFrame ==
  (lastOp.op = "caller" /\ lastOp.written) =>
    IF lastOp.entry.recv = "Logger" /\ lastOp.entry.fn \in {m.name : m \in LeveledMethods}
    THEN lastOp.function = lastOp.site
    ELSE lastOp.function = lastOp.entry

(***************************************************************************)
(* SetOutput.                                                              *)
(***************************************************************************)
\* C40: SetOutput on a logger makes w that logger's sink and changes nothing
\* else: every other logger, derived from it or not, keeps its sink, and
\* every logger keeps its level, service, component, format and fields; a
\* logger derived from p gets the sink p has at that moment and leaves the
\* loggers that exist as they are; a record emitted through p is appended
\* to the sink p has at that moment and to no other.
C40_SetOutput ==
  [][/\ lastOp'.op = "SetOutput" =>
          LET p == lastOp'.p
          IN /\ heap'.loggers[p].output = lastOp'.w
             /\ heap'.loggers[p] = [heap.loggers[p] EXCEPT !.output = lastOp'.w]
             /\ Len(heap'.loggers) = Len(heap.loggers)
             /\ \A q \in Pointers \ {p} : heap'.loggers[q] = heap.loggers[q]
             /\ heap'.maps = heap.maps
             /\ sinks' = sinks
     /\ lastOp'.op = "WithFields" =>
          /\ lastOp'.ptr = Len(heap.loggers) + 1
          /\ heap'.loggers[lastOp'.ptr].output = heap.loggers[lastOp'.p].output
          /\ \A q \in Pointers : heap'.loggers[q] = heap.loggers[q]
          /\ sinks' = sinks
     /\ lastOp'.op = "emit" =>
          LET o == heap.loggers[lastOp'.p].output
          IN /\ heap' = heap
             /\ \A k \in Sinks \ {o} : sinks'[k] = sinks[k]
             /\ Len(sinks'[o]) =
                  Len(sinks[o]) +
                    (IF levelEnabled(Deref(heap, lastOp'.p), lastOp'.level)
                     THEN 1 ELSE 0)
             /\ SubSeq(sinks'[o], 1, Len(sinks[o])) = sinks[o]
    ]_vars

\* the first logger writes to the buffer, a logger derived from it before
\* that still to standard output, one derived afterwards to the buffer, and
\* a record emitted through the last has arrived in the buffer
C40_Witness ==
  /\ lastOp.op = "emit"
  /\ lastOp.p = 3
  /\ Len(heap.loggers) = 3
  /\ heap.loggers[1].output = Buffer
  /\ heap.loggers[2].output = Stdout
  /\ heap.loggers[3].output = Buffer
  /\ Len(sinks[Buffer]) = 1
  /\ sinks[Stdout] = << >>
====
